---------------------------- MODULE Spec2Model ----------------------------
(***************************************************************************)
(* A model of the FTP client package ftp (gonutz/ftp-client).              *)
(*                                                                         *)
(* src/ftp/ftp.go holds two generations of the package one after the       *)
(* other.  The model follows the later one (lines 600-1312), which is the  *)
(* one that builds against responseCode.ok of src/unnamed/part_000; the    *)
(* earlier one (lines 1-599) calls a method success() that no file         *)
(* defines.                                                                *)
(*                                                                         *)
(* Byte strings are sequences of one-character strings.  Command verbs and *)
(* fixed message fragments are kept as single atoms of such sequences, so  *)
(* concatenation is \o and the empty string is << >>.                      *)
(***************************************************************************)
EXTENDS Integers, Sequences, FiniteSets, TLC

VARIABLES
    transferType,   \* Connection.transferType
    pc,             \* position of the running operation, "idle" between calls
    op,             \* the running (or last returned) operation and its arguments
    exe,            \* activation record of executeGetResponse
    dataConn,       \* the data connection of the operation: none, open, closed
    data,           \* bytes collected from the data connection by ReadAll
    addr,           \* the address enterPassiveMode dials
    events,         \* I/O performed by the operation, in order
    ret,            \* what the last operation returned
    lastTypeOk,     \* history: representation of the last TYPE answered 200
    buf,            \* framer input: a byte buffer
    framed,         \* framer output for buf
    input,          \* what a function applied on its own is applied to
    output,         \* what it gave
    logger,         \* Connection.logger is not nil
    log,            \* what the Logger was told during the operation, in order
    twin            \* the run of the same operation in a session that differs
                    \* in having a Logger or not

vars == <<transferType, pc, op, exe, dataConn, data, addr, events, ret, lastTypeOk,
          buf, framed, input, output, logger, log, twin>>

sessionVars == <<transferType, pc, op, exe, dataConn, data, addr, events, ret,
                 lastTypeOk, logger, log, twin>>

-----------------------------------------------------------------------------
(* Strings *)

CR == "\r"
LF == "\n"
SP == " "
CRLF == <<CR, LF>>
Digits == {"0", "1", "2", "3", "4", "5", "6", "7", "8", "9"}

Min(a, b) == IF a < b THEN a ELSE b

\* s[from:to] of Go, 0-based, to exclusive
Slice(s, from, to) == SubSeq(s, from + 1, to)

\* s[from:]
SliceFrom(s, from) == SubSeq(s, from + 1, Len(s))

HasPrefixAt(s, i, p) ==
    /\ i + Len(p) <= Len(s)
    /\ \A k \in 1..Len(p) : s[i + k] = p[k]

\* strings.HasSuffix
HasSuffix(s, p) == Len(s) >= Len(p) /\ HasPrefixAt(s, Len(s) - Len(p), p)

\* strings.TrimSuffix
TrimSuffix(s, p) == IF HasSuffix(s, p) THEN SubSeq(s, 1, Len(s) - Len(p)) ELSE s

\* strings.Index from 0-based offset i: the first offset >= i where p occurs, or -1
RECURSIVE IndexFrom(_, _, _)
IndexFrom(s, p, i) ==
    IF i + Len(p) > Len(s) THEN -1
    ELSE IF HasPrefixAt(s, i, p) THEN i
    ELSE IndexFrom(s, p, i + 1)

\* strings.LastIndex: the last 0-based offset where p occurs, or -1
RECURSIVE LastIndexFrom(_, _, _)
LastIndexFrom(s, p, i) ==
    IF i < 0 THEN -1
    ELSE IF HasPrefixAt(s, i, p) THEN i
    ELSE LastIndexFrom(s, p, i - 1)

LastIndex(s, p) == LastIndexFrom(s, p, Len(s) - Len(p))

\* strings.Split(s, sep) for a non-empty sep: the parts between the
\* non-overlapping occurrences of sep, scanning from the left
RECURSIVE Split(_, _)
Split(s, sep) ==
    LET i == IndexFrom(s, sep, 0)
    IN  IF i < 0 THEN <<s>>
        ELSE <<Slice(s, 0, i)>> \o Split(SliceFrom(s, i + Len(sep)), sep)

\* strings.Replace(s, old, new, -1) for a non-empty old
RECURSIVE ReplaceAll(_, _, _)
ReplaceAll(s, old, new) ==
    LET i == IndexFrom(s, old, 0)
    IN  IF i < 0 THEN s
        ELSE Slice(s, 0, i) \o new \o ReplaceAll(SliceFrom(s, i + Len(old)), old, new)

\* strings.Join
RECURSIVE Join(_, _)
Join(words, sep) ==
    IF Len(words) = 0 THEN << >>
    ELSE IF Len(words) = 1 THEN words[1]
    ELSE words[1] \o sep \o Join(Tail(words), sep)

\* whether p occurs in s
Contains(s, p) == IndexFrom(s, p, 0) >= 0

-----------------------------------------------------------------------------
(* Response codes *)

commandOk == <<"2", "0", "0">>
systemStatusOrHelpReply == <<"2", "1", "1">>
directoryStatus == <<"2", "1", "2">>
fileStatus == <<"2", "1", "3">>
helpMessage == <<"2", "1", "4">>
systemName == <<"2", "1", "5">>
serviceReadyForNewUser == <<"2", "2", "0">>
serviceClosingControlConnection == <<"2", "2", "1">>
noTransferInProgress == <<"2", "2", "5">>
closingDataConnection == <<"2", "2", "6">>
enteringPassiveMode == <<"2", "2", "7">>
userLoggedIn_Proceed == <<"2", "3", "0">>
fileActionCompleted == <<"2", "5", "0">>
pathNameCreated == <<"2", "5", "7">>
userNameOK_NeedPassword == <<"3", "3", "1">>
needAccountForLogin == <<"3", "3", "2">>
fileActionPending == <<"3", "5", "0">>
connectionClosed_TransferAborter == <<"4", "2", "6">>

\* responseCode.ok with the first-character test dropped
okAnyFirstChar(c) == Len(c) = 3

\* responseCode.ok
ok(c) ==
    IF Len(c) # 3 THEN FALSE
    ELSE c[1] = "1" \/ c[1] = "2"

-----------------------------------------------------------------------------
(* Errors.  nil is the record Nil; an error is its text. *)

Nil == [nil |-> TRUE, msg |-> << >>]
Error(text) == [nil |-> FALSE, msg |-> text]

\* errorMessage that drops the command
errorMessageNoCommand(command, response) ==
    Error(<<"FTP server responded to ">> \o <<" with error: ">> \o response)

errorMessage(command, response) ==
    Error(<<"FTP server responded to ">> \o command \o <<" with error: ">> \o response)

-----------------------------------------------------------------------------
(* Reply framer *)

isSingleLineResponse(msg) == Len(msg) >= 4 /\ msg[4] = SP

\* endsInNewLine looking at the last byte only
endsInLineFeed(msg) == Len(msg) >= 1 /\ msg[Len(msg)] = LF

endsInNewLine(msg) ==
    LET l == Len(msg)
    IN  IF l < 2 THEN FALSE
        ELSE msg[l - 1] = CR /\ msg[l] = LF

isCompleteSingleLineResponse(msg) == isSingleLineResponse(msg) /\ endsInNewLine(msg)

isMultiLineResponse(msg) == Len(msg) >= 4 /\ msg[4] = "-"

\* lastLineEndsInSameCodeAsFirstLine without the space after the code
lastLineEndsInCode(msg) ==
    LET lines == Split(msg, CRLF)
    IN  IF Len(lines) < 3 THEN FALSE
        ELSE LET first == lines[1]
                 last == lines[Len(lines) - 1]
             IN  IF Len(first) < 3 \/ Len(last) < 3 THEN FALSE
                 ELSE Slice(last, 0, 3) = Slice(first, 0, 3)

\* lastLineEndsInSameCodeAsFirstLine taking the last split part as the last line
lastLineIsLastPart(msg) ==
    LET lines == Split(msg, CRLF)
    IN  IF Len(lines) < 3 THEN FALSE
        ELSE LET first == lines[1]
                 last == lines[Len(lines)]
             IN  IF Len(first) < 3 \/ Len(last) < 4 THEN FALSE
                 ELSE Slice(last, 0, 4) = Slice(first, 0, 3) \o <<SP>>

lastLineEndsInSameCodeAsFirstLine(msg) ==
    LET lines == Split(msg, CRLF)
    IN  IF Len(lines) < 3 THEN FALSE
        ELSE LET first == lines[1]
                 last == lines[Len(lines) - 1]
             IN  IF Len(first) < 3 \/ Len(last) < 4 THEN FALSE
                 ELSE Slice(last, 0, 4) = Slice(first, 0, 3) \o <<SP>>

isCompleteMultiLineResponse(msg) ==
    isMultiLineResponse(msg) /\ lastLineEndsInSameCodeAsFirstLine(msg)

isCompleteResponse(msg) ==
    isCompleteSingleLineResponse(msg) \/ isCompleteMultiLineResponse(msg)

extractCode(msg) ==
    IF Len(msg) <= 3 THEN msg
    ELSE Slice(msg, 0, 3)

-----------------------------------------------------------------------------
(* Reply extractors *)

\* A slice expression out of range panics; the result says so.
Panic == [panic |-> TRUE, val |-> << >>]
Value(v) == [panic |-> FALSE, val |-> v]

\* removeControlSymbols leaving the code of the last line where it is
removeFirstCodeOnly(resp) ==
    IF Len(resp) < 4 THEN Panic
    ELSE Value(TrimSuffix(SliceFrom(resp, 4), CRLF))

removeControlSymbols(resp) ==
    IF Len(resp) < 4 THEN Panic
    ELSE LET noCodeOrNewLine == TrimSuffix(SliceFrom(resp, 4), CRLF)
         IN  IF isSingleLineResponse(resp) THEN Value(noCodeOrNewLine)
             ELSE LET lastLineStart == LastIndex(noCodeOrNewLine, CRLF)
                  IN  IF lastLineStart + 6 > Len(noCodeOrNewLine) THEN Panic
                      ELSE LET start == Slice(noCodeOrNewLine, 0, lastLineStart + 2)
                               end == SliceFrom(noCodeOrNewLine, lastLineStart + 6)
                           IN  Value(TrimSuffix(start \o end, CRLF))

QUOTE == "\""

NoLF(s, from, to) == \A k \in (from + 1)..to : s[k] # LF

\* pathMatcher matches at offset i with the closing quote at offset j:
\* [0-9][0-9][0-9][ |-]"(.+)".*\r\n
pathMatchAt(s, i, j) ==
    /\ i + 5 < j /\ j < Len(s)
    /\ s[i + 1] \in Digits /\ s[i + 2] \in Digits /\ s[i + 3] \in Digits
    /\ s[i + 4] \in {SP, "|", "-"}
    /\ s[i + 5] = QUOTE
    /\ s[j + 1] = QUOTE
    /\ NoLF(s, i + 5, j)
    /\ \E k \in (j + 1)..(Len(s) - 2) :
          /\ HasPrefixAt(s, k, CRLF)
          /\ NoLF(s, j + 1, k)

\* leftmost match, and in it the longest (.+)
getPathFromResponse(resp) ==
    LET starts == {i \in 0..Len(resp) : \E j \in 0..Len(resp) : pathMatchAt(resp, i, j)}
    IN  IF starts = {} THEN [err |-> errorMessage(<<"path extraction">>, resp), val |-> << >>]
        ELSE LET i == CHOOSE x \in starts : \A y \in starts : x <= y
                 ends == {j \in 0..Len(resp) : pathMatchAt(resp, i, j)}
                 j == CHOOSE x \in ends : \A y \in ends : x >= y
             IN  [err |-> Nil, val |-> Slice(resp, i + 5, j)]

\* strconv.Atoi of a string of digits
DigitValue(d) ==
    CASE d = "0" -> 0 [] d = "1" -> 1 [] d = "2" -> 2 [] d = "3" -> 3 [] d = "4" -> 4
      [] d = "5" -> 5 [] d = "6" -> 6 [] d = "7" -> 7 [] d = "8" -> 8 [] d = "9" -> 9

DigitChar(n) == <<"0", "1", "2", "3", "4", "5", "6", "7", "8", "9">>[n + 1]

\* Go's int is of 64 bits (on a 64-bit build).  A number of that width
\* is kept as its limbs of 16 bits, the least significant first, in two's
\* complement.
Base == 65536
IntLimbs == 4

\* v * m + c from limb i on, m and c small; the last element is the carry out
RECURSIVE MulAdd(_, _, _, _)
MulAdd(v, m, c, i) ==
    IF i > Len(v) THEN <<c>>
    ELSE LET t == v[i] * m + c
         IN  <<t % Base>> \o MulAdd(v, m, t \div Base, i + 1)

\* v + u + c from limb i on, the carry out dropped: int addition wraps
RECURSIVE AddLimbs(_, _, _, _)
AddLimbs(v, u, c, i) ==
    IF i > Len(v) THEN << >>
    ELSE LET t == v[i] + u[i] + c
         IN  <<t % Base>> \o AddLimbs(v, u, t \div Base, i + 1)

\* v divided by 10, from limb i down, r the remainder so far
RECURSIVE Div10(_, _, _)
Div10(v, i, r) ==
    IF i = 0 THEN [q |-> << >>, r |-> r]
    ELSE LET t == r * Base + v[i]
             rest == Div10(v, i - 1, t % 10)
         IN  [q |-> rest.q \o <<t \div 10>>, r |-> rest.r]

\* the decimal digits of v >= 0, none for 0
RECURSIVE Decimal(_)
Decimal(v) ==
    IF \A i \in 1..Len(v) : v[i] = 0 THEN << >>
    ELSE LET d == Div10(v, Len(v), 0)
         IN  Decimal(d.q) \o <<DigitChar(d.r)>>

\* strconv.Atoi of a string of digits, from digit k on with v so far: a
\* number that does not fit is an error, which the caller drops, and the
\* largest int
RECURSIVE AtoiFrom(_, _, _)
AtoiFrom(s, k, v) ==
    IF k > Len(s) THEN v
    ELSE LET n == Len(v)
             r == MulAdd(v, 10, DigitValue(s[k]), 1)
         IN  IF r[n + 1] # 0 \/ r[n] >= Base \div 2
             THEN [i \in 1..n |-> IF i = n THEN Base \div 2 - 1 ELSE Base - 1]
             ELSE AtoiFrom(s, k + 1, SubSeq(r, 1, n))

Atoi(s) == AtoiFrom(s, 1, [i \in 1..IntLimbs |-> 0])

\* strconv.Itoa
Itoa(v) ==
    LET n == Len(v)
        digits(x) == IF Decimal(x) = << >> THEN <<"0">> ELSE Decimal(x)
    IN  IF v[n] >= Base \div 2
        THEN <<"-">> \o digits(AddLimbs([i \in 1..n |-> Base - 1 - v[i]],
                                        [i \in 1..n |-> 0], 1, 1))
        ELSE digits(v)

\* 256*highPort + lowPort in int arithmetic
PortOf(highPort, lowPort) ==
    AddLimbs(SubSeq(MulAdd(highPort, 256, 0, 1), 1, Len(highPort)), lowPort, 0, 1)

\* s[from:to] is [0-9]+
IsNumber(s) == Len(s) > 0 /\ \A k \in 1..Len(s) : s[k] \in Digits

\* the text between "(" at offset i and ")" at offset j is six numbers
tupleAt(s, i, j) ==
    /\ i < j /\ j < Len(s)
    /\ s[i + 1] = "(" /\ s[j + 1] = ")"
    /\ LET fields == Split(Slice(s, i + 1, j), <<",">>)
       IN  Len(fields) = 6 /\ \A k \in 1..6 : IsNumber(fields[k])

\* addrMatcher: .*\(([0-9]+,[0-9]+,[0-9]+,[0-9]+),([0-9]+),([0-9]+)\).*
\* The leftmost match starts on the line of the first tuple, and the greedy
\* leading .* then takes the last tuple of that line.
getAddressOfPasvResponse(msg) ==
    LET opens == {i \in 0..Len(msg) : \E j \in 0..Len(msg) : tupleAt(msg, i, j)}
    IN  IF opens = {} THEN [err |-> errorMessage(<<"address extraction">>, msg), val |-> << >>]
        ELSE LET firstOpen == CHOOSE x \in opens : \A y \in opens : x <= y
                 sameLine == {i \in opens : NoLF(msg, firstOpen, i)}
                 i == CHOOSE x \in sameLine : \A y \in sameLine : x >= y
                 j == CHOOSE x \in 0..Len(msg) : tupleAt(msg, i, x)
                 fields == Split(Slice(msg, i + 1, j), <<",">>)
                 ip == Join(SubSeq(fields, 1, 4), <<".">>)
                 highPort == Atoi(fields[5])
                 lowPort == Atoi(fields[6])
                 port == Itoa(PortOf(highPort, lowPort))
             IN  [err |-> Nil, val |-> ip \o <<":">> \o port]

\* parseNLST splitting on LF without turning CR-LF into LF first
parseNLSTKeepingCR(d) ==
    LET lines == Split(d, <<LF>>)
    IN  IF Len(lines) > 0 /\ lines[Len(lines)] = << >>
        THEN SubSeq(lines, 1, Len(lines) - 1)
        ELSE lines

parseNLST(d) ==
    LET onlyNewLines == ReplaceAll(d, CRLF, <<LF>>)
        lines == Split(onlyNewLines, <<LF>>)
    IN  IF Len(lines) > 0 /\ lines[Len(lines)] = << >>
        THEN SubSeq(lines, 1, Len(lines) - 1)
        ELSE lines

-----------------------------------------------------------------------------
(* The environment of a session: what the server and the transport may do *)

\* the reply "<code> <text>\r\n"
SingleLine(code, text) == code \o <<SP>> \o text \o CRLF

Codes ==
    { commandOk, systemStatusOrHelpReply, directoryStatus, fileStatus, helpMessage,
      systemName, serviceReadyForNewUser, serviceClosingControlConnection,
      noTransferInProgress, closingDataConnection, enteringPassiveMode,
      userLoggedIn_Proceed, fileActionCompleted, pathNameCreated,
      userNameOK_NeedPassword, needAccountForLogin, fileActionPending,
      connectionClosed_TransferAborter, <<"1", "5", "0">>, <<"5", "5", "0">> }

PasvReply == SingleLine(enteringPassiveMode, <<"(", "1", ",", "2", ",", "3", ",", "4", ",", "1", ",", "2", ")">>)
PathReply == SingleLine(pathNameCreated, <<QUOTE, "d", QUOTE>>)
PathReplyMultiLine ==
    pathNameCreated \o <<"-", QUOTE, "d", QUOTE>> \o CRLF \o pathNameCreated \o <<SP>> \o CRLF
PathReplyTwoTokens == SingleLine(pathNameCreated, <<QUOTE, "d", QUOTE, SP, QUOTE, "e", QUOTE>>)
MultiLineReply ==
    systemStatusOrHelpReply \o <<"-", "a">> \o CRLF \o systemStatusOrHelpReply \o <<SP, "b">> \o CRLF

\* the framed replies receive may return
Replies == {SingleLine(c, << >>) : c \in Codes} \cup {PasvReply, PathReply, MultiLineReply, PathReplyMultiLine, PathReplyTwoTokens}
    \cup {SingleLine(helpMessage, <<"h">>), SingleLine(fileStatus, <<"f">>)}

WriteErr == Error(<<"write: broken pipe">>)
ReadErr == Error(<<"read: connection reset">>)
DialErr == Error(<<"dial: connection refused">>)
CopyErr == Error(<<"copy: unexpected EOF">>)
CloseErr == Error(<<"close: connection reset">>)

\* what one call of receive may yield: a framed reply, or the read's error
ReceiveOutcomes ==
    {[msg |-> r, err |-> Nil] : r \in Replies} \cup {[msg |-> << >>, err |-> ReadErr]}

\* arguments of the caller: the empty string and a name
Args == {<< >>, <<"p">>}

\* what the server may put on the data connection of a listing
Listings == {<< >>, <<"a">> \o CRLF \o <<"b", LF>>}

-----------------------------------------------------------------------------
(* Control-connection primitives *)

\* Connection.send ending the line for the Logger only
sendEndingLineForLogger(words, err) ==
    [type |-> "send",
     msg |-> Join(words, <<SP>>) \o (IF logger THEN CRLF ELSE << >>),
     err |-> err]

\* Connection.send: the line written, with the error of the write
send(words, err) == [type |-> "send", msg |-> Join(words, <<SP>>) \o CRLF, err |-> err]

\* Connection.sendWithoutEmptyString
sendWithoutEmptyString(cmd, arg, err) ==
    IF arg = << >> THEN send(<<cmd>>, err)
    ELSE send(<<cmd, arg>>, err)

\* Connection.receive: the reply read, with the error of the read
receive(r) == [type |-> "recv", msg |-> r.msg, err |-> r.err]

DataEvent(type, err) == [type |-> type, msg |-> << >>, err |-> err]

NoExe == [expectedCode |-> << >>, args |-> << >>, caller |-> "none"]
NoOp == [name |-> "none", cmd |-> << >>, arg |-> << >>, arg2 |-> << >>]
NoRet == [err |-> Nil, val |-> << >>, panic |-> FALSE]
Result(err, val) == [err |-> err, val |-> val, panic |-> FALSE]
Panicked == [err |-> Nil, val |-> << >>, panic |-> TRUE]

\* the framer has not looked at buf
NotFramed == [done |-> FALSE, complete |-> FALSE]

\* no function has been applied on its own
NoInput == << >>
NoOutput == [done |-> FALSE, panic |-> FALSE, err |-> Nil, val |-> << >>]
Output(panic, err, val) == [done |-> TRUE, panic |-> panic, err |-> err, val |-> val]

\* no run of a twin session is compared
NoTwin == [phase |-> "none"]

\* transferASCII, transferBinary
ASCII == "ASCII"
binary == "binary"

\* newConnection: a new session is in the textual representation
Init ==
    /\ transferType = ASCII
    /\ pc = "idle"
    /\ op = NoOp
    /\ exe = NoExe
    /\ dataConn = "none"
    /\ data = << >>
    /\ addr = << >>
    /\ events = << >>
    /\ ret = NoRet
    /\ lastTypeOk = ASCII
    /\ logger \in BOOLEAN
    /\ log = << >>
    /\ twin = NoTwin
    /\ buf = << >>
    /\ framed = NotFramed
    /\ input = NoInput
    /\ output = NoOutput

\* a public method is entered
Enter(name, cmd, arg, arg2) ==
    /\ pc = "idle"
    /\ op' = [name |-> name, cmd |-> cmd, arg |-> arg, arg2 |-> arg2]
    /\ dataConn' = "none"
    /\ data' = << >>
    /\ addr' = << >>
    /\ UNCHANGED <<lastTypeOk, buf, framed, input, output, twin>>

\* Logger.SentFTP with the error left out
SentFTPWithoutError(msg, err) == [call |-> "SentFTP", msg |-> msg, err |-> Nil]

\* Logger.SentFTP(msg, err), Logger.ReceivedFTP(response, err)
SentFTP(msg, err) == [call |-> "SentFTP", msg |-> msg, err |-> err]
ReceivedFTP(response, err) == [call |-> "ReceivedFTP", msg |-> response, err |-> err]

\* send and receive tell the Logger, if there is one, what they did
Notified(e) ==
    IF ~logger THEN << >>
    ELSE IF e.type = "send" THEN <<SentFTP(e.msg, e.err)>>
    ELSE IF e.type = "recv" THEN <<ReceivedFTP(e.msg, e.err)>>
    ELSE << >>

RECURSIVE NotifiedAll(_)
NotifiedAll(es) ==
    IF es = << >> THEN << >> ELSE Notified(Head(es)) \o NotifiedAll(Tail(es))

\* the operation has performed evs: what evs adds to events was done in this
\* step, the Logger being told on the way; an operation begins with nothing
\* performed
Perform(evs) ==
    /\ events' = evs
    /\ logger' = logger
    /\ log' = IF evs = << >> THEN << >>
              ELSE log \o NotifiedAll(SubSeq(evs, Len(events) + 1, Len(evs)))

\* the operation returns r to its caller, having performed evs
Return(r, evs) ==
    /\ pc' = "idle"
    /\ exe' = NoExe
    /\ ret' = r
    /\ Perform(evs)

\* the operation goes on at label
Goto(label, evs) ==
    /\ pc' = label
    /\ exe' = NoExe
    /\ ret' = NoRet
    /\ Perform(evs)

\* the operation calls c.executeGetResponse(expectedCode, args...)
Call(expectedCode, args, caller, evs) ==
    /\ pc' = "exe_send"
    /\ exe' = [expectedCode |-> expectedCode, args |-> args, caller |-> caller]
    /\ ret' = NoRet
    /\ Perform(evs)

-----------------------------------------------------------------------------
(* Command/reply engine *)

\* executeGetResponse accepting every success-class code
executeAnySuccess(expectedCode, args, r) ==
    IF ~r.err.nil THEN [resp |-> << >>, err |-> r.err]
    ELSE IF ok(extractCode(r.msg)) THEN [resp |-> r.msg, err |-> Nil]
    ELSE [resp |-> << >>, err |-> errorMessage(args[1], r.msg)]

\* executeGetResponse reporting a failed read as a reply of the server
executeWrappingError(expectedCode, args, r) ==
    IF ~r.err.nil THEN [resp |-> << >>, err |-> errorMessage(args[1], r.msg)]
    ELSE IF extractCode(r.msg) = expectedCode THEN [resp |-> r.msg, err |-> Nil]
    ELSE [resp |-> << >>, err |-> errorMessage(args[1], r.msg)]

\* executeGetResponse from its receive on: r is what receive yields
executeGetResponse(expectedCode, args, r) ==
    IF ~r.err.nil THEN [resp |-> << >>, err |-> r.err]
    ELSE IF extractCode(r.msg) = expectedCode THEN [resp |-> r.msg, err |-> Nil]
    ELSE [resp |-> << >>, err |-> errorMessage(args[1], r.msg)]

\* execute: the error of executeGetResponse is what the operation returns
execute(res, evs) ==
    /\ Return(Result(res.err, << >>), evs)
    /\ UNCHANGED <<transferType, dataConn, data, addr>>

\* RenameFromTo that sends RNTO whatever RNFR returned
renameWithoutTest(res, evs) ==
    /\ Call(fileActionCompleted, <<<<"RNTO">>, op.arg2>>, "execute", evs)
    /\ UNCHANGED <<transferType, dataConn, data, addr>>

\* RenameFromTo after RNFR
RenameFromTo_RNTO(res, evs) ==
    /\ IF ~res.err.nil
       THEN Return(Result(res.err, << >>), evs)
       ELSE Call(fileActionCompleted, <<<<"RNTO">>, op.arg2>>, "execute", evs)
    /\ UNCHANGED <<transferType, dataConn, data, addr>>

\* MakeDirectory and PrintWorkingDirectory after MKD, PWD
PathResult(res, evs) ==
    /\ IF ~res.err.nil
       THEN Return(Result(res.err, << >>), evs)
       ELSE LET p == getPathFromResponse(res.resp)
            IN  Return(Result(p.err, p.val), evs)
    /\ UNCHANGED <<transferType, dataConn, data, addr>>

\* System after SYST
System_result(res, evs) ==
    /\ IF ~res.err.nil
       THEN Return(Result(res.err, << >>), evs)
       ELSE LET t == removeControlSymbols(res.resp)
            IN  IF t.panic THEN Return(Panicked, evs)
                ELSE Return(Result(Nil, t.val), evs)
    /\ UNCHANGED <<transferType, dataConn, data, addr>>

-----------------------------------------------------------------------------
(* Transfer representation and passive mode *)

ListOps == {"ListFilesIn", "ListFileNamesIn"}
UploadOps == {"Upload", "UploadUnique", "Append"}

\* every data-bearing operation asking for the binary representation
RequiredTypeBinary(name) == binary

\* setASCIITransfer for the listings, setBinaryTransfer for the file transfers
RequiredType(name) == IF name \in ListOps THEN ASCII ELSE binary

\* the symbol A is for ASCII and I is for binary data
TypeSymbol(t) == IF t = ASCII THEN <<"A">> ELSE <<"I">>

\* setTransferTypeTo that always sends TYPE
alwaysSendType(current, t) == FALSE

\* setTransferTypeTo: no command when the session is in representation t already
setTransferTypeTo_elided(current, t) == current = t

\* setTransferTypeTo that records t whatever the reply
recordTypeAlways(current, t, err) == t

\* setTransferTypeTo: the representation recorded after TYPE returned err
setTransferTypeTo_recorded(current, t, err) == IF err.nil THEN t ELSE current

\* enterPassiveMode is called
enterPassiveMode(evs) == Call(enteringPassiveMode, <<<<"PASV">>>>, "enterPassiveMode", evs)

\* setTransferTypeTo after TYPE, its caller going on whatever the error
setTransferTypeTo_ignored(res, evs) ==
    /\ transferType' = setTransferTypeTo_recorded(transferType, RequiredType(op.name), res.err)
    /\ enterPassiveMode(evs)
    /\ UNCHANGED <<dataConn, data, addr>>

\* setTransferTypeTo after TYPE, and its caller's test of the error
setTransferTypeTo_done(res, evs) ==
    /\ transferType' = setTransferTypeTo_recorded(transferType, RequiredType(op.name), res.err)
    /\ IF ~res.err.nil
       THEN Return(Result(res.err, << >>), evs)
       ELSE enterPassiveMode(evs)
    /\ UNCHANGED <<dataConn, data, addr>>

\* enterPassiveMode after PASV, up to net.Dial
enterPassiveMode_address(res, evs) ==
    /\ IF ~res.err.nil
       THEN Return(Result(res.err, << >>), evs) /\ addr' = addr
       ELSE LET a == getAddressOfPasvResponse(res.resp)
            IN  IF ~a.err.nil
                THEN Return(Result(a.err, << >>), evs) /\ addr' = addr
                ELSE Goto("dial", evs) /\ addr' = a.val
    /\ UNCHANGED <<transferType, dataConn, data>>

\* where executeGetResponse returns to
Continue(res, evs) ==
    CASE exe.caller = "execute" -> execute(res, evs)
      [] exe.caller = "RenameFromTo" -> RenameFromTo_RNTO(res, evs)
      [] exe.caller = "path" -> PathResult(res, evs)
      [] exe.caller = "System" -> System_result(res, evs)
      [] exe.caller = "setTransferTypeTo" -> setTransferTypeTo_done(res, evs)
      [] exe.caller = "enterPassiveMode" -> enterPassiveMode_address(res, evs)

\* history: the representation a TYPE command answered 200 asked for
TypeAnswered(args, r) ==
    IF /\ args[1] = <<"TYPE">>
       /\ r.err.nil
       /\ extractCode(r.msg) = commandOk
    THEN IF args[2] = <<"A">> THEN ASCII ELSE binary
    ELSE lastTypeOk

\* executeGetResponse: c.send(args...)
executeGetResponse_send ==
    /\ pc = "exe_send"
    /\ \E err \in {Nil, WriteErr} :
          LET evs == Append(events, send(exe.args, err))
          IN  IF ~err.nil
              THEN Continue([resp |-> << >>, err |-> err], evs)
              ELSE /\ pc' = "exe_recv"
                   /\ Perform(evs)
                   /\ UNCHANGED <<exe, ret, transferType, dataConn, data, addr>>
    /\ UNCHANGED <<op, lastTypeOk, buf, framed, input, output, twin>>

\* executeGetResponse: c.receive() and the comparison of the code
executeGetResponse_receive ==
    /\ pc = "exe_recv"
    /\ \E r \in ReceiveOutcomes :
          /\ Continue(executeGetResponse(exe.expectedCode, exe.args, r),
                      Append(events, receive(r)))
          /\ lastTypeOk' = TypeAnswered(exe.args, r)
    /\ UNCHANGED <<op, buf, framed, input, output, twin>>

\* enterPassiveMode: net.Dial("tcp", addr)
enterPassiveMode_dial ==
    /\ pc = "dial"
    /\ \E err \in {Nil, DialErr} :
          LET evs == Append(events, [type |-> "dial", msg |-> addr, err |-> err])
          IN  IF ~err.nil
              THEN Return(Result(err, << >>), evs) /\ dataConn' = dataConn
              ELSE Goto("cmd_send", evs) /\ dataConn' = "open"
    /\ UNCHANGED <<op, transferType, data, addr, lastTypeOk, buf, framed, input, output, twin>>

-----------------------------------------------------------------------------
(* Data-transfer orchestrator *)

CloseErrs == {Nil, CloseErr}

\* an error exit that leaves the data connection as it is
failWithoutClose(err, evs, cerr) ==
    /\ Return(Result(err, << >>), evs)
    /\ dataConn' = dataConn

\* Download and upload: dataConn.Close() and return err; the error cerr of
\* the close is dropped
closeAndFail(err, evs, cerr) ==
    /\ Return(Result(err, << >>), Append(evs, DataEvent("close", cerr)))
    /\ dataConn' = "closed"

\* the verb and path of the data command of Download: c.send("RETR", path)
Download_command(err) == send(<<<<"RETR">>, op.arg>>, err)

\* Download, upload: c.send / c.sendWithoutEmptyString of the data command
transfer_send ==
    /\ pc = "cmd_send"
    /\ op.name \notin ListOps
    /\ \E err \in {Nil, WriteErr}, cerr \in CloseErrs :
          LET line == IF op.name = "Download" THEN Download_command(err)
                      ELSE sendWithoutEmptyString(op.cmd, op.arg, err)
              evs == Append(events, line)
          IN  IF ~err.nil
              THEN closeAndFail(err, evs, cerr)
              ELSE Goto("reply1", evs) /\ dataConn' = dataConn
    /\ UNCHANGED <<op, transferType, data, addr, lastTypeOk, buf, framed, input, output, twin>>

\* Download, upload: the first reply after the data command
transfer_reply ==
    /\ pc = "reply1"
    /\ op.name \notin ListOps
    /\ \E r \in ReceiveOutcomes, cerr \in CloseErrs :
          LET evs == Append(events, receive(r))
          IN  IF ~r.err.nil
              THEN closeAndFail(r.err, evs, cerr)
              ELSE IF ~ok(extractCode(r.msg))
              THEN closeAndFail(errorMessage(op.cmd, r.msg), evs, cerr)
              ELSE Goto("copy", evs) /\ dataConn' = dataConn
    /\ UNCHANGED <<op, transferType, data, addr, lastTypeOk, buf, framed, input, output, twin>>

\* Download: io.Copy(dest, dataConn); upload: io.Copy(dataConn, source)
transfer_copy ==
    /\ pc = "copy"
    /\ op.name \notin ListOps
    /\ \E err \in {Nil, CopyErr}, cerr \in CloseErrs :
          LET evs == Append(events, DataEvent("copy", err))
          IN  IF ~err.nil
              THEN closeAndFail(err, evs, cerr)
              ELSE Goto("close", evs) /\ dataConn' = dataConn
    /\ UNCHANGED <<op, transferType, data, addr, lastTypeOk, buf, framed, input, output, twin>>

\* Download, upload going on to the second reply with the data connection open
transfer_leaveOpen ==
    /\ pc = "close"
    /\ op.name \notin ListOps
    /\ Goto("reply2", events)
    /\ dataConn' = dataConn
    /\ UNCHANGED <<op, transferType, data, addr, lastTypeOk, buf, framed, input, output, twin>>

\* Download, upload: err = dataConn.Close() after the copy
transfer_close ==
    /\ pc = "close"
    /\ op.name \notin ListOps
    /\ \E err \in CloseErrs :
          LET evs == Append(events, DataEvent("close", err))
          IN  IF ~err.nil
              THEN Return(Result(err, << >>), evs)
              ELSE Goto("reply2", evs)
    /\ dataConn' = "closed"
    /\ UNCHANGED <<op, transferType, data, addr, lastTypeOk, buf, framed, input, output, twin>>

\* the result of Download and upload once the second reply r was received,
\* taking any reply for a confirmation
confirmAnyReply(cmd, r) ==
    IF ~r.err.nil THEN r.err
    ELSE Nil

\* the result of Download and upload once the second reply r was received
transfer_result(cmd, r) ==
    IF ~r.err.nil THEN r.err
    ELSE IF ~ok(extractCode(r.msg)) THEN errorMessage(cmd, r.msg)
    ELSE Nil

\* Download, upload: the second reply, after the data connection was closed
transfer_confirm ==
    /\ pc = "reply2"
    /\ op.name \notin ListOps
    /\ \E r \in ReceiveOutcomes :
          Return(Result(transfer_result(op.cmd, r), << >>), Append(events, receive(r)))
    /\ UNCHANGED <<op, transferType, dataConn, data, addr, lastTypeOk, buf, framed, input, output, twin>>

\* ListFilesIn returns the data as it is, ListFileNamesIn parses it
ListResult(err, d) ==
    IF ~err.nil THEN Result(err, << >>)
    ELSE IF op.name = "ListFileNamesIn" THEN Result(Nil, parseNLST(d))
    ELSE Result(Nil, d)

\* readListCommandData returns: the deferred dataConn.Close() runs, and its
\* error cerr is dropped
deferredClose(err, d, evs, cerr) ==
    /\ Return(ListResult(err, d), Append(evs, DataEvent("close", cerr)))
    /\ dataConn' = "closed"

\* readListCommandData: c.sendWithoutEmptyString(cmd, path)
readListCommandData_send ==
    /\ pc = "cmd_send"
    /\ op.name \in ListOps
    /\ \E err \in {Nil, WriteErr}, cerr \in CloseErrs :
          LET evs == Append(events, sendWithoutEmptyString(op.cmd, op.arg, err))
          IN  IF ~err.nil
              THEN deferredClose(err, << >>, evs, cerr)
              ELSE Goto("reply1", evs) /\ dataConn' = dataConn
    /\ UNCHANGED <<op, transferType, data, addr, lastTypeOk, buf, framed, input, output, twin>>

\* readListCommandData: the first reply after the list command
readListCommandData_reply ==
    /\ pc = "reply1"
    /\ op.name \in ListOps
    /\ \E r \in ReceiveOutcomes, cerr \in CloseErrs :
          LET evs == Append(events, receive(r))
          IN  IF ~r.err.nil
              THEN deferredClose(r.err, << >>, evs, cerr)
              ELSE IF ~ok(extractCode(r.msg))
              THEN deferredClose(errorMessage(op.cmd, r.msg), << >>, evs, cerr)
              ELSE Goto("copy", evs) /\ dataConn' = dataConn
    /\ UNCHANGED <<op, transferType, data, addr, lastTypeOk, buf, framed, input, output, twin>>

\* readListCommandData: ioutil.ReadAll(dataConn)
readListCommandData_read ==
    /\ pc = "copy"
    /\ op.name \in ListOps
    /\ \E err \in {Nil, CopyErr}, d \in Listings, cerr \in CloseErrs :
          LET evs == Append(events, DataEvent("copy", err))
          IN  IF ~err.nil
              THEN deferredClose(err, << >>, evs, cerr) /\ data' = data
              ELSE Goto("reply2", evs) /\ dataConn' = dataConn /\ data' = d
    /\ UNCHANGED <<op, transferType, addr, lastTypeOk, buf, framed, input, output, twin>>

\* readListCommandData: the second reply, read while the data connection is
\* still open; the deferred close follows
readListCommandData_confirm ==
    /\ pc = "reply2"
    /\ op.name \in ListOps
    /\ \E r \in ReceiveOutcomes, cerr \in CloseErrs :
          deferredClose(transfer_result(op.cmd, r), data, Append(events, receive(r)), cerr)
    /\ UNCHANGED <<op, transferType, data, addr, lastTypeOk, buf, framed, input, output, twin>>

-----------------------------------------------------------------------------
(* Session operations *)

\* an operation that is one call of execute or executeGetResponse
Single(name, expectedCode, verb, args, caller) ==
    /\ Enter(name, verb, IF Len(args) > 0 THEN args[1] ELSE << >>, << >>)
    /\ Call(expectedCode, <<verb>> \o args, caller, << >>)
    /\ UNCHANGED transferType

ChangeWorkingDirTo ==
    \E path \in Args : Single("ChangeWorkingDirTo", fileActionCompleted, <<"CWD">>, <<path>>, "execute")

ChangeDirUp == Single("ChangeDirUp", commandOk, <<"CDUP">>, << >>, "execute")

StructureMount ==
    \E path \in Args : Single("StructureMount", fileActionCompleted, <<"SMNT">>, <<path>>, "execute")

Reinitialize == Single("Reinitialize", serviceReadyForNewUser, <<"REIN">>, << >>, "execute")

Quit == Single("Quit", serviceClosingControlConnection, <<"QUIT">>, << >>, "execute")

Delete ==
    \E path \in Args : Single("Delete", fileActionCompleted, <<"DELE">>, <<path>>, "execute")

RemoveDirectory ==
    \E path \in Args : Single("RemoveDirectory", fileActionCompleted, <<"RMD">>, <<path>>, "execute")

NoOperation == Single("NoOperation", commandOk, <<"NOOP">>, << >>, "execute")

MakeDirectory ==
    \E path \in Args : Single("MakeDirectory", pathNameCreated, <<"MKD">>, <<path>>, "path")

PrintWorkingDirectory == Single("PrintWorkingDirectory", pathNameCreated, <<"PWD">>, << >>, "path")

System == Single("System", systemName, <<"SYST">>, << >>, "System")

\* RenameFromTo: c.execute(fileActionPending, "RNFR", from)
RenameFromTo ==
    \E from \in Args, to \in Args :
        /\ Enter("RenameFromTo", <<"RNFR">>, from, to)
        /\ Call(fileActionPending, <<<<"RNFR">>, from>>, "RenameFromTo", << >>)
        /\ UNCHANGED transferType

\* Login is called
Login ==
    \E user \in Args, password \in Args :
        /\ Enter("Login", <<"USER">>, user, password)
        /\ Goto("login_send", << >>)
        /\ UNCHANGED transferType

\* Login: c.send("USER", user)
Login_send ==
    /\ pc = "login_send"
    /\ \E err \in {Nil, WriteErr} :
          LET evs == Append(events, send(<<<<"USER">>, op.arg>>, err))
          IN  IF ~err.nil
              THEN Return(Result(err, << >>), evs)
              ELSE Goto("login_recv", evs)
    /\ UNCHANGED <<op, transferType, dataConn, data, addr, lastTypeOk, buf, framed, input, output, twin>>

\* Login taking every success-class reply to USER for a login
loginOnAnySuccess(code) ==
    IF ok(code) THEN "done"
    ELSE IF code = userNameOK_NeedPassword THEN "password"
    ELSE "fail"

\* Login: what the code of the reply to USER leads to
Login_reply(code) ==
    IF code = userLoggedIn_Proceed THEN "done"
    ELSE IF code = userNameOK_NeedPassword THEN "password"
    ELSE "fail"

\* Login: the reply to USER
Login_receive ==
    /\ pc = "login_recv"
    /\ \E r \in ReceiveOutcomes :
          LET evs == Append(events, receive(r))
              code == extractCode(r.msg)
          IN  IF ~r.err.nil THEN Return(Result(r.err, << >>), evs)
              ELSE IF Login_reply(code) = "done" THEN Return(Result(Nil, << >>), evs)
              ELSE IF Login_reply(code) = "password"
              THEN Call(userLoggedIn_Proceed, <<<<"PASS">>, op.arg2>>, "execute", evs)
              ELSE Return(Result(errorMessage(<<"USER">>, r.msg), << >>), evs)
    /\ UNCHANGED <<op, transferType, dataConn, data, addr, lastTypeOk, buf, framed, input, output, twin>>

\* Abort is called
Abort ==
    /\ Enter("Abort", <<"ABOR">>, << >>, << >>)
    /\ Goto("abor_send", << >>)
    /\ UNCHANGED transferType

\* Abort: the send of sendAndReceive("ABOR")
Abort_send ==
    /\ pc = "abor_send"
    /\ \E err \in {Nil, WriteErr} :
          LET evs == Append(events, send(<<<<"ABOR">>>>, err))
          IN  IF ~err.nil
              THEN Return(Result(err, << >>), evs)
              ELSE Goto("abor_recv", evs)
    /\ UNCHANGED <<op, transferType, dataConn, data, addr, lastTypeOk, buf, framed, input, output, twin>>

\* Abort without the second reply after 426
abortWithoutSecondReply(code) ==
    IF code = noTransferInProgress \/ code = closingDataConnection THEN "done"
    ELSE "fail"

\* Abort: what the code of the first reply leads to
Abort_reply(code) ==
    IF code = noTransferInProgress \/ code = closingDataConnection THEN "done"
    ELSE IF code = connectionClosed_TransferAborter THEN "more"
    ELSE "fail"

\* Abort: the first reply
Abort_receive ==
    /\ pc = "abor_recv"
    /\ \E r \in ReceiveOutcomes :
          LET evs == Append(events, receive(r))
              code == extractCode(r.msg)
          IN  IF ~r.err.nil THEN Return(Result(r.err, << >>), evs)
              ELSE IF Abort_reply(code) = "done" THEN Return(Result(Nil, << >>), evs)
              ELSE IF Abort_reply(code) = "more" THEN Goto("abor_recv2", evs)
              ELSE Return(Result(errorMessage(<<"ABOR">>, r.msg), << >>), evs)
    /\ UNCHANGED <<op, transferType, dataConn, data, addr, lastTypeOk, buf, framed, input, output, twin>>

\* Abort: the reply after 426
Abort_receive2 ==
    /\ pc = "abor_recv2"
    /\ \E r \in ReceiveOutcomes :
          LET evs == Append(events, receive(r))
              code == extractCode(r.msg)
          IN  IF ~r.err.nil THEN Return(Result(r.err, << >>), evs)
              ELSE IF code = closingDataConnection THEN Return(Result(Nil, << >>), evs)
              ELSE Return(Result(errorMessage(<<"ABOR">>, r.msg), << >>), evs)
    /\ UNCHANGED <<op, transferType, dataConn, data, addr, lastTypeOk, buf, framed, input, output, twin>>

\* HelpAbout is called
HelpAbout ==
    \E topic \in Args :
        /\ Enter("HelpAbout", <<"HELP">>, topic, << >>)
        /\ Goto("help_send", << >>)
        /\ UNCHANGED transferType

\* HelpAbout: c.sendWithoutEmptyString("HELP", topic)
HelpAbout_send ==
    /\ pc = "help_send"
    /\ \E err \in {Nil, WriteErr} :
          LET evs == Append(events, sendWithoutEmptyString(<<"HELP">>, op.arg, err))
          IN  IF ~err.nil
              THEN Return(Result(err, << >>), evs)
              ELSE Goto("help_recv", evs)
    /\ UNCHANGED <<op, transferType, dataConn, data, addr, lastTypeOk, buf, framed, input, output, twin>>

\* the payload of a reply as an operation returns it
Payload(resp) ==
    LET t == removeControlSymbols(resp)
    IN  IF t.panic THEN Panicked ELSE Result(Nil, t.val)

\* HelpAbout: the reply
HelpAbout_receive ==
    /\ pc = "help_recv"
    /\ \E r \in ReceiveOutcomes :
          LET evs == Append(events, receive(r))
              code == extractCode(r.msg)
          IN  IF ~r.err.nil THEN Return(Result(r.err, << >>), evs)
              ELSE IF code = systemStatusOrHelpReply \/ code = helpMessage
              THEN Return(Payload(r.msg), evs)
              ELSE Return(Result(errorMessage(<<"HELP">>, r.msg), << >>), evs)
    /\ UNCHANGED <<op, transferType, dataConn, data, addr, lastTypeOk, buf, framed, input, output, twin>>

\* StatusType
GeneralStatus == <<"status">>
FileStatus == <<"file status">>
DirectoryStatus == <<"directory status">>

\* statusTypeOfCode with the kinds of 212 and 213 exchanged
statusTypeExchanged(code) ==
    IF code = systemStatusOrHelpReply THEN [typ |-> GeneralStatus, ok |-> TRUE]
    ELSE IF code = directoryStatus THEN [typ |-> FileStatus, ok |-> TRUE]
    ELSE IF code = fileStatus THEN [typ |-> DirectoryStatus, ok |-> TRUE]
    ELSE [typ |-> << >>, ok |-> FALSE]

statusTypeOfCode(code) ==
    IF code = systemStatusOrHelpReply THEN [typ |-> GeneralStatus, ok |-> TRUE]
    ELSE IF code = directoryStatus THEN [typ |-> DirectoryStatus, ok |-> TRUE]
    ELSE IF code = fileStatus THEN [typ |-> FileStatus, ok |-> TRUE]
    ELSE [typ |-> << >>, ok |-> FALSE]

\* StatusOf is called
StatusOf ==
    \E path \in Args :
        /\ Enter("StatusOf", <<"STAT">>, path, << >>)
        /\ Goto("stat_send", << >>)
        /\ UNCHANGED transferType

\* StatusOf: c.sendWithoutEmptyString("STAT", path)
StatusOf_send ==
    /\ pc = "stat_send"
    /\ \E err \in {Nil, WriteErr} :
          LET evs == Append(events, sendWithoutEmptyString(<<"STAT">>, op.arg, err))
          IN  IF ~err.nil
              THEN Return(Result(err, << >>), evs)
              ELSE Goto("stat_recv", evs)
    /\ UNCHANGED <<op, transferType, dataConn, data, addr, lastTypeOk, buf, framed, input, output, twin>>

\* StatusOf: the reply
StatusOf_receive ==
    /\ pc = "stat_recv"
    /\ \E r \in ReceiveOutcomes :
          LET evs == Append(events, receive(r))
              st == statusTypeOfCode(extractCode(r.msg))
              t == removeControlSymbols(r.msg)
          IN  IF ~r.err.nil THEN Return(Result(r.err, << >>), evs)
              ELSE IF st.ok
              THEN IF t.panic THEN Return(Panicked, evs)
                   ELSE Return(Result(Nil, <<st.typ, t.val>>), evs)
              ELSE Return(Result(errorMessage(<<"STAT">>, r.msg), << >>), evs)
    /\ UNCHANGED <<op, transferType, dataConn, data, addr, lastTypeOk, buf, framed, input, output, twin>>

\* a data-bearing operation is called: setASCIITransfer or setBinaryTransfer
\* first, enterPassiveMode at once if that sends nothing
Transfer(name, verb, path) ==
    /\ Enter(name, verb, path, << >>)
    /\ IF setTransferTypeTo_elided(transferType, RequiredType(name))
       THEN enterPassiveMode(<< >>)
       ELSE Call(commandOk, <<<<"TYPE">>, TypeSymbol(RequiredType(name))>>,
                 "setTransferTypeTo", << >>)
    /\ UNCHANGED transferType

ListFilesIn == \E path \in Args : Transfer("ListFilesIn", <<"LIST">>, path)

ListFileNamesIn == \E path \in Args : Transfer("ListFileNamesIn", <<"NLST">>, path)

Download == \E path \in Args : Transfer("Download", <<"RETR">>, path)

Upload == \E path \in Args : Transfer("Upload", <<"STOR">>, path)

UploadUnique == Transfer("UploadUnique", <<"STOU">>, << >>)

Append_ == \E path \in Args : Transfer("Append", <<"APPE">>, path)

Next ==
    \/ ChangeWorkingDirTo \/ ChangeDirUp \/ StructureMount \/ Reinitialize \/ Quit
    \/ Delete \/ RemoveDirectory \/ NoOperation \/ MakeDirectory
    \/ PrintWorkingDirectory \/ System \/ RenameFromTo
    \/ executeGetResponse_send \/ executeGetResponse_receive
    \/ Login \/ Login_send \/ Login_receive
    \/ Abort \/ Abort_send \/ Abort_receive \/ Abort_receive2
    \/ HelpAbout \/ HelpAbout_send \/ HelpAbout_receive
    \/ StatusOf \/ StatusOf_send \/ StatusOf_receive
    \/ ListFilesIn \/ ListFileNamesIn \/ Download \/ Upload \/ UploadUnique \/ Append_
    \/ enterPassiveMode_dial
    \/ transfer_send \/ transfer_reply \/ transfer_copy \/ transfer_close \/ transfer_confirm
    \/ readListCommandData_send \/ readListCommandData_reply
    \/ readListCommandData_read \/ readListCommandData_confirm

Spec == Init /\ [][Next]_vars

-----------------------------------------------------------------------------
(* Vocabulary of the properties *)

DataOps == ListOps \cup {"Download"} \cup UploadOps

\* an operation has returned to its caller
Returned == pc = "idle" /\ op.name # "none"

Succeeded == Returned /\ ret.err.nil /\ ~ret.panic

IsSend(e) == e.type = "send"
IsRecv(e) == e.type = "recv"
IsControl(e) == IsSend(e) \/ IsRecv(e)

\* e is the write of a command line of the given verb
IsSendOf(e, verb) == IsSend(e) /\ Len(e.msg) > 0 /\ e.msg[1] = verb[1]

\* e is a reply that was read, with the given code
IsReply(e) == IsRecv(e) /\ e.err.nil
HasCode(e, code) == IsReply(e) /\ Len(e.msg) >= 3 /\ SubSeq(e.msg, 1, 3) = code

\* the success class of the wire format: three characters, the first 1 or 2
SuccessClass(e) == IsReply(e) /\ Len(e.msg) > 3 /\ e.msg[1] \in {"1", "2"}

SendsOf(verb) == {i \in 1..Len(events) : IsSendOf(events[i], verb)}
Sends == {i \in 1..Len(events) : IsSend(events[i])}
Recvs == {i \in 1..Len(events) : IsRecv(events[i])}
EventsOf(type) == {i \in 1..Len(events) : events[i].type = type}

\* the error is a protocol error about the command and the reply
Names(err, command, reply) ==
    /\ ~err.nil
    /\ Contains(err.msg, command)
    /\ Contains(err.msg, reply)

-----------------------------------------------------------------------------
(* C1, C2: completion and the data connection of the data-bearing operations *)

\* the replies read after the data command, in order
RepliesAfterCommand ==
    {i \in Recvs : \E k \in SendsOf(op.cmd) : k < i}

FirstReplyOk ==
    \E i \in RepliesAfterCommand :
        /\ \A j \in RepliesAfterCommand : i <= j
        /\ SuccessClass(events[i])

SecondReplyOk ==
    \E i \in RepliesAfterCommand, j \in RepliesAfterCommand :
        /\ i < j
        /\ SuccessClass(events[j])

CopyOk == \E i \in EventsOf("copy") : events[i].err.nil

CloseOk ==
    /\ EventsOf("close") # {}
    /\ \A i \in EventsOf("close") : events[i].err.nil

\* C1 as stated: a data-bearing operation returns success only if the first
\* reply after the data command is success-class, the copy and the close of
\* the data connection succeeded and a second reply was read and is
\* success-class; a successful copy without a success-class second reply is
\* an error.
C1_AsStated ==
    (Returned /\ op.name \in DataOps) =>
        /\ ret.err.nil => (FirstReplyOk /\ CopyOk /\ CloseOk /\ SecondReplyOk)
        /\ (CopyOk /\ ~SecondReplyOk) => ~ret.err.nil

\* C1 (amended): as stated, except that the close of the data connection has
\* to succeed for Download and the uploads only; the listings close the data
\* connection on return and drop the error of that close.
C1_SuccessOnlyAfterSecondReply ==
    (Returned /\ op.name \in DataOps) =>
        /\ ret.err.nil =>
              /\ FirstReplyOk /\ CopyOk /\ SecondReplyOk
              /\ EventsOf("close") # {}
              /\ op.name \notin ListOps => CloseOk
        /\ (CopyOk /\ ~SecondReplyOk) => ~ret.err.nil

\* a download whose copy and close succeeded and whose second reply is not
\* success-class has returned an error
C1_Witness ==
    /\ Returned /\ op.name = "Download"
    /\ CopyOk /\ CloseOk
    /\ Len(events) > 0 /\ IsReply(events[Len(events)])
    /\ ~SuccessClass(events[Len(events)])
    /\ ~ret.err.nil

\* C2: a data-bearing operation that has returned after its data connection
\* was opened has closed it, whatever the exit; no operation that has
\* returned has an open data connection.
C2_DataConnectionClosed ==
    /\ pc = "idle" => dataConn # "open"
    /\ (Returned /\ op.name \in DataOps /\ \E i \in EventsOf("dial") : events[i].err.nil) =>
          /\ dataConn = "closed"
          /\ \E i \in EventsOf("dial"), j \in EventsOf("close") : i < j

\* an upload whose data command could not be written has returned with the
\* data connection closed
C2_Witness ==
    /\ Returned /\ op.name = "Upload"
    /\ \E i \in SendsOf(op.cmd) : ~events[i].err.nil
    /\ dataConn = "closed"

-----------------------------------------------------------------------------
(* C3: the command/reply engine *)

\* the commands issued through execute or executeGetResponse alone, each
\* with the one code it expects
ExecVerbs ==
    { <<"CWD">>, <<"CDUP">>, <<"SMNT">>, <<"REIN">>, <<"QUIT">>, <<"DELE">>, <<"RMD">>,
      <<"NOOP">>, <<"SYST">>, <<"PWD">>, <<"MKD">>, <<"PASV">>, <<"TYPE">> }

Expected(v) ==
    CASE v \in {<<"CWD">>, <<"SMNT">>, <<"DELE">>, <<"RMD">>} -> <<"2", "5", "0">>
      [] v \in {<<"CDUP">>, <<"NOOP">>, <<"TYPE">>} -> <<"2", "0", "0">>
      [] v = <<"REIN">> -> <<"2", "2", "0">>
      [] v = <<"QUIT">> -> <<"2", "2", "1">>
      [] v = <<"SYST">> -> <<"2", "1", "5">>
      [] v \in {<<"PWD">>, <<"MKD">>} -> <<"2", "5", "7">>
      [] v = <<"PASV">> -> <<"2", "2", "7">>

\* the call for verb v, answered at event j, succeeded: an operation that is
\* nothing but this call has returned success; an operation that goes on
\* (path extraction after PWD and MKD, the rest of a transfer after TYPE and
\* PASV) has not returned an error about v
ExecuteSucceeded(v, j) ==
    IF v \in {<<"PWD">>, <<"MKD">>, <<"PASV">>, <<"TYPE">>}
    THEN ret.err.nil \/ ~Contains(ret.err.msg, v)
    ELSE j = Len(events) /\ ret.err.nil

\* C3: a command issued through execute / executeGetResponse is written
\* once; when the write succeeded exactly one reply is read for it; the call
\* succeeds if and only if the code of that reply is the one expected code,
\* and every other code, other success-class codes included, ends the
\* operation with a protocol error that contains the verb and the raw reply.
C3_ExecuteExactCode ==
    Returned =>
        \A v \in ExecVerbs : \A i \in SendsOf(v) :
            /\ Cardinality(SendsOf(v)) = 1
            /\ IF ~events[i].err.nil THEN i = Len(events)
               ELSE /\ i < Len(events)
                    /\ IsRecv(events[i + 1])
                    /\ i + 2 <= Len(events) => ~IsRecv(events[i + 2])
                    /\ IsReply(events[i + 1]) =>
                          IF HasCode(events[i + 1], Expected(v))
                          THEN ExecuteSucceeded(v, i + 1)
                          ELSE /\ i + 1 = Len(events)
                               /\ Names(ret.err, v, events[i + 1].msg)

\* CDUP, which expects 200, was answered 250 and has failed with an error
\* about CDUP and that reply
C3_Witness ==
    /\ Returned /\ op.name = "ChangeDirUp"
    /\ Len(events) = 2
    /\ HasCode(events[2], <<"2", "5", "0">>)
    /\ Names(ret.err, <<"CDUP">>, events[2].msg)

-----------------------------------------------------------------------------
(* C4: Login *)

\* C4: Login writes USER first.  Answered 230 it returns success without
\* PASS; answered 331 it writes PASS once, after USER, and returns success if
\* and only if PASS is answered 230; answered anything else it fails with an
\* error about USER and writes no PASS.
C4_Login ==
    (Returned /\ op.name = "Login") =>
        /\ Len(events) >= 1
        /\ events[1] = send(<<<<"USER">>, op.arg>>, events[1].err)
        /\ Cardinality(SendsOf(<<"USER">>)) = 1
        /\ IF Len(events) >= 2 /\ HasCode(events[2], <<"2", "3", "0">>)
           THEN Len(events) = 2 /\ ret.err.nil
           ELSE IF Len(events) >= 2 /\ HasCode(events[2], <<"3", "3", "1">>)
           THEN /\ Len(events) >= 3
                /\ events[3] = send(<<<<"PASS">>, op.arg2>>, events[3].err)
                /\ Sends = {1, 3}
                /\ ret.err.nil <=> (Len(events) = 4 /\ HasCode(events[4], <<"2", "3", "0">>))
           ELSE /\ SendsOf(<<"PASS">>) = {}
                /\ Len(events) <= 2
                /\ ~ret.err.nil
                /\ (Len(events) = 2 /\ IsReply(events[2])) =>
                      Names(ret.err, <<"USER">>, events[2].msg)

\* a login that was asked for the password and got 230 for it: two commands
C4_Witness ==
    /\ Returned /\ op.name = "Login" /\ ret.err.nil
    /\ Len(events) = 4
    /\ IsSendOf(events[1], <<"USER">>) /\ HasCode(events[2], <<"3", "3", "1">>)
    /\ IsSendOf(events[3], <<"PASS">>) /\ HasCode(events[4], <<"2", "3", "0">>)

-----------------------------------------------------------------------------
(* C5: Abort *)

\* C5: Abort writes ABOR once.  It returns success if and only if the first
\* reply is 225 or 226, or the first reply is 426 and the next reply is 226.
\* It reads a second reply only after 426.  When the replies could be read
\* and it does not succeed, the error is about ABOR.
C5_Abort ==
    (Returned /\ op.name = "Abort") =>
        /\ Sends = {1}
        /\ events[1].msg = <<"ABOR">> \o CRLF
        /\ Cardinality(Recvs) <= 2
        /\ Cardinality(Recvs) = 2 <=> (Len(events) >= 2 /\ HasCode(events[2], <<"4", "2", "6">>))
        /\ ret.err.nil <=>
              \/ Len(events) = 2 /\ HasCode(events[2], <<"2", "2", "5">>)
              \/ Len(events) = 2 /\ HasCode(events[2], <<"2", "2", "6">>)
              \/ /\ Len(events) = 3
                 /\ HasCode(events[2], <<"4", "2", "6">>)
                 /\ HasCode(events[3], <<"2", "2", "6">>)
        /\ (~ret.err.nil /\ Len(events) >= 2 /\ IsReply(events[Len(events)])) =>
              Names(ret.err, <<"ABOR">>, events[Len(events)].msg)

\* an abort answered 426 and then 226 has returned success
C5_Witness ==
    /\ Returned /\ op.name = "Abort" /\ ret.err.nil
    /\ Len(events) = 3
    /\ HasCode(events[2], <<"4", "2", "6">>)
    /\ HasCode(events[3], <<"2", "2", "6">>)

-----------------------------------------------------------------------------
(* C6, C7: the transfer representation *)

\* the representation an operation asks for: textual for the listings,
\* binary for the file transfers
Requested(name) == IF name \in {"ListFilesIn", "ListFileNamesIn"} THEN "ASCII" ELSE "binary"

Symbol(t) == IF t = "ASCII" THEN <<"A">> ELSE <<"I">>

\* the step enters a data-bearing operation, whose first act is the switch
EntersSwitch == pc = "idle" /\ pc' # "idle" /\ op'.name \in DataOps

\* C6: a switch to the representation the session has recorded writes no
\* command and goes on (to PASV); any other switch writes one TYPE command,
\* and the recorded representation becomes the requested one if and only if
\* that command is answered 200: a failed write, a failed read and any other
\* reply leave it as it was.
C6_TypeSwitch ==
    [][ /\ EntersSwitch =>
              /\ events' = << >>
              /\ transferType' = transferType
              /\ IF transferType = Requested(op'.name)
                 THEN exe'.args = <<<<"PASV">>>>
                 ELSE exe'.args = <<<<"TYPE">>, Symbol(Requested(op'.name))>>
        /\ (pc = "exe_send" /\ exe.args[1] = <<"TYPE">>) =>
              /\ transferType' = transferType
              /\ events'[Len(events')].err.nil => (pc' = "exe_recv" /\ exe' = exe)
        /\ (pc = "exe_recv" /\ exe.args[1] = <<"TYPE">>) =>
              /\ transferType' = IF HasCode(events'[Len(events')], <<"2", "0", "0">>)
                                 THEN Requested(op.name)
                                 ELSE transferType
              /\ exe'.args # exe.args
      ]_vars

\* a download in a session that was binary already has sent no TYPE
C6_Witness ==
    /\ Returned /\ op.name = "Download"
    /\ Len(events) > 0
    /\ SendsOf(<<"TYPE">>) = {}
    /\ transferType = "binary"

\* C7: the recorded representation is the one asked for by the last TYPE
\* command that was answered 200, textual if there was none; no operation
\* changes it in any other way.
C7_TypeFollowsLastTypeOk == transferType = lastTypeOk

\* REIN has succeeded in a session that is binary, and the session still is
C7_Witness ==
    /\ Returned /\ op.name = "Reinitialize" /\ ret.err.nil
    /\ transferType = "binary"

-----------------------------------------------------------------------------
(* C8: RenameFromTo *)

\* C8: RenameFromTo writes RNFR; only when RNFR is answered 350 does it write
\* RNTO, and then it succeeds if and only if RNTO is answered 250.  When RNFR
\* fails, by the transport or by any other code, RNTO is not written and the
\* error of RNFR is returned.
C8_Rename ==
    (Returned /\ op.name = "RenameFromTo") =>
        /\ Len(events) >= 1
        /\ events[1] = send(<<<<"RNFR">>, op.arg>>, events[1].err)
        /\ IF Len(events) >= 2 /\ HasCode(events[2], <<"3", "5", "0">>)
           THEN /\ Len(events) >= 3
                /\ events[3] = send(<<<<"RNTO">>, op.arg2>>, events[3].err)
                /\ Sends = {1, 3}
                /\ ret.err.nil <=> (Len(events) = 4 /\ HasCode(events[4], <<"2", "5", "0">>))
           ELSE /\ SendsOf(<<"RNTO">>) = {}
                /\ Sends = {1}
                /\ ~ret.err.nil
                /\ ~events[Len(events)].err.nil => ret.err = events[Len(events)].err
                /\ IsReply(events[Len(events)]) =>
                      Names(ret.err, <<"RNFR">>, events[Len(events)].msg)

\* RNFR was answered 250, which is not 350: no RNTO, an error about RNFR
C8_Witness ==
    /\ Returned /\ op.name = "RenameFromTo"
    /\ Len(events) = 2
    /\ HasCode(events[2], <<"2", "5", "0">>)
    /\ Names(ret.err, <<"RNFR">>, events[2].msg)

-----------------------------------------------------------------------------
(* C9: no retry *)

\* C9: within an operation no command line is written twice, and a failed
\* write or read on the control connection is the last thing the operation
\* does on the control connection: it returns, with that very error.
C9_NoRetry ==
    /\ \A i \in Sends, j \in Sends : i # j => events[i].msg # events[j].msg
    /\ \A i \in 1..Len(events) :
          (IsControl(events[i]) /\ ~events[i].err.nil) =>
              /\ pc = "idle"
              /\ ret.err = events[i].err
              /\ \A j \in (i + 1)..Len(events) : ~IsControl(events[j])

\* a listing whose second reply could not be read: the data connection is
\* closed after the failed read, and the read's error is returned
C9_Witness ==
    /\ Returned /\ op.name \in ListOps
    /\ \E i \in Recvs :
          /\ ~events[i].err.nil
          /\ i < Len(events)
          /\ \E j \in Recvs : j < i
    /\ ret.err = ReadErr

-----------------------------------------------------------------------------
(* The reply framer on its own: isCompleteResponse applied to a buffer *)

MaxLines == 3

Code123 == <<"1", "2", "3">>

\* what a line of a buffer may hold, and what may end it
LineTexts ==
    { << >>, <<"-">>, Code123, Code123 \o <<SP>>, Code123 \o <<"-">>, Code123 \o <<SP, "x">> }
LineEnds == {CRLF, <<CR>>, <<LF>>, << >>}

RECURSIVE Concat(_)
Concat(parts) ==
    IF Len(parts) = 0 THEN << >>
    ELSE parts[1][1] \o parts[1][2] \o Concat(Tail(parts))

\* the buffers of up to max lines
Buffers(max) ==
    {Concat(parts) : parts \in UNION {[1..n -> LineTexts \X LineEnds] : n \in 0..max}}

MaxBytes == 6

\* the bytes a short buffer is made of, and the buffers of up to max bytes
Alphabet == {"1", SP, "-", CR, LF}
ByteStrings(max) == UNION {[1..n -> Alphabet] : n \in 0..max}

InitFrame ==
    /\ buf \in Buffers(MaxLines) \cup ByteStrings(MaxBytes)
    /\ framed = NotFramed
    /\ input = NoInput
    /\ output = NoOutput
    /\ transferType = ASCII
    /\ pc = "idle"
    /\ op = NoOp
    /\ exe = NoExe
    /\ dataConn = "none"
    /\ data = << >>
    /\ addr = << >>
    /\ events = << >>
    /\ ret = NoRet
    /\ lastTypeOk = ASCII
    /\ logger = FALSE
    /\ log = << >>
    /\ twin = NoTwin

\* readResponseInto: the test of the accumulated bytes
Frame ==
    /\ ~framed.done
    /\ framed' = [done |-> TRUE, complete |-> isCompleteResponse(buf)]
    /\ UNCHANGED <<buf, input, output, sessionVars>>

SpecFrame == InitFrame /\ [][Frame]_vars

-----------------------------------------------------------------------------
(* C10: multi-line replies *)

\* the offsets of the CR-LF pairs of buf; no two overlap, so these are the
\* places where splitting on CR-LF cuts
Cuts == {i \in 0..(Len(buf) - 2) : buf[i + 1] = CR /\ buf[i + 2] = LF}

\* the offsets where the segments of the split begin, and where the one
\* beginning at s ends
SegmentStarts == {0} \cup {i + 2 : i \in Cuts}
SegmentEnd(s) ==
    IF \E i \in Cuts : i >= s
    THEN CHOOSE i \in Cuts : i >= s /\ \A j \in Cuts : j >= s => i <= j
    ELSE Len(buf)

\* the segment beginning at s begins with the code of the first line and a space
IsTerminator(s) ==
    /\ SegmentEnd(0) >= 3
    /\ SegmentEnd(s) - s >= 4
    /\ \A k \in 1..3 : buf[s + k] = buf[k]
    /\ buf[s + 4] = SP

HyphenAtIndex3 == Len(buf) >= 4 /\ buf[4] = "-"

-----------------------------------------------------------------------------
(* C11: single-line replies *)

\* C11: a buffer that is not a multi-line reply (shorter than 4 bytes, or
\* its byte at index 3 is not a hyphen) is complete if and only if it has at
\* least 4 bytes, its byte at index 3 is a space and its last two bytes are
\* CR LF.
C11_SingleLine ==
    (framed.done /\ ~HyphenAtIndex3) =>
        (framed.complete <=>
            /\ Len(buf) >= 4
            /\ buf[4] = SP
            /\ buf[Len(buf) - 1] = CR
            /\ buf[Len(buf)] = LF)

\* a code, a space and CR LF, nothing else, was found complete
C11_Witness ==
    /\ framed.done /\ framed.complete
    /\ Len(buf) = 6
    /\ buf[4] = SP

-----------------------------------------------------------------------------
(* C12: what ends a multi-line reply *)

\* some line after the first begins with the code of the first and a space
HasTerminator == \E s \in SegmentStarts : s > 0 /\ IsTerminator(s)

\* the buffer ends with a line after the first that begins with the code of
\* the first and a space, and with the CR-LF that ends this line
EndsWithTerminator ==
    /\ Len(buf) >= 2
    /\ (Len(buf) - 2) \in Cuts
    /\ \E s \in SegmentStarts :
          /\ s > 0
          /\ SegmentEnd(s) = Len(buf) - 2
          /\ IsTerminator(s)

\* C12: a multi-line buffer none of whose lines after the first begins with
\* the code of the first line and a space is not complete, whatever else its
\* lines begin with; a multi-line buffer that ends with a terminator line
\* (code, space, optional text, CR-LF) is complete, whatever lines precede
\* that line.
C12_Terminator ==
    (framed.done /\ HyphenAtIndex3) =>
        /\ ~HasTerminator => ~framed.complete
        /\ EndsWithTerminator => framed.complete

\* a reply whose middle line is the bare code, without a space, and whose
\* last line is the terminator was found complete
C12_Witness ==
    /\ framed.done /\ HyphenAtIndex3 /\ framed.complete
    /\ EndsWithTerminator
    /\ \E s \in SegmentStarts :
          /\ s > 0
          /\ SegmentEnd(s) - s = 3
          /\ \A k \in 1..3 : buf[s + k] = buf[k]

-----------------------------------------------------------------------------
(* removeControlSymbols on its own: applied to the framing of text lines *)

MaxTexts == 3

\* the text lines a reply may carry: none has a CR-LF in it
Texts == { << >>, <<"a">>, <<"a", "b">>, helpMessage \o <<SP, "b">> }

\* the reply with the given code that carries the given lines
RECURSIVE FramingRest(_, _)
FramingRest(code, texts) ==
    IF Len(texts) = 1 THEN code \o <<SP>> \o texts[1] \o CRLF
    ELSE texts[1] \o CRLF \o FramingRest(code, Tail(texts))

Framing(code, texts) ==
    IF Len(texts) = 1 THEN code \o <<SP>> \o texts[1] \o CRLF
    ELSE code \o <<"-">> \o texts[1] \o CRLF \o FramingRest(code, Tail(texts))

\* the session variables of a session nothing is done with
SessionAtRest ==
    /\ transferType = ASCII
    /\ pc = "idle"
    /\ op = NoOp
    /\ exe = NoExe
    /\ dataConn = "none"
    /\ data = << >>
    /\ addr = << >>
    /\ events = << >>
    /\ ret = NoRet
    /\ lastTypeOk = ASCII
    /\ logger = FALSE
    /\ log = << >>
    /\ twin = NoTwin

InitPayload ==
    /\ \E n \in 1..MaxTexts : \E texts \in [1..n -> Texts] :
          /\ input = [fn |-> "removeControlSymbols", code |-> helpMessage, texts |-> texts]
          /\ buf = Framing(helpMessage, texts)
    /\ output = NoOutput
    /\ framed = NotFramed
    /\ SessionAtRest

\* HelpAbout, StatusOf: removeControlSymbols(resp)
Deframe ==
    /\ input # NoInput /\ input.fn = "removeControlSymbols"
    /\ ~output.done
    /\ LET r == removeControlSymbols(buf)
       IN  output' = Output(r.panic, Nil, r.val)
    /\ UNCHANGED <<buf, framed, input, sessionVars>>

SpecPayload == InitPayload /\ [][Deframe]_vars

-----------------------------------------------------------------------------
(* C13: payload extraction *)

Deframed == input # NoInput /\ input.fn = "removeControlSymbols" /\ output.done

\* C13 as stated: what removeControlSymbols gives for the framing of the
\* lines t1..tn is t1..tn joined by CR-LF.
C13_AsStated ==
    Deframed => (~output.panic /\ output.val = Join(input.texts, CRLF))

\* C13 (amended): what removeControlSymbols gives for the framing of the
\* lines t1..tn is t1..tn joined by CR-LF when n = 1 or tn is not empty; when
\* n > 1 and tn is empty it is t1..t(n-1) joined by CR-LF: the empty last
\* line goes, and the CR-LF before it.
C13_LeftInverse ==
    Deframed =>
        LET n == Len(input.texts)
        IN  /\ ~output.panic
            /\ output.val =
                  IF n = 1 \/ input.texts[n] # << >>
                  THEN Join(input.texts, CRLF)
                  ELSE Join(SubSeq(input.texts, 1, n - 1), CRLF)

\* a reply of three lines, the last not empty, has been deframed to the
\* three lines
C13_Witness ==
    /\ Deframed
    /\ Len(input.texts) = 3
    /\ input.texts[3] # << >>
    /\ output.val = input.texts[1] \o CRLF \o input.texts[2] \o CRLF \o input.texts[3]

-----------------------------------------------------------------------------
(* C14: the path of MKD and PWD *)

\* the offsets of the double quotes of a reply
Quotes(r) == {i \in 1..Len(r) : r[i] = QUOTE}

\* the reply has a double-quoted token: a quote and a later one
HasQuotedToken(r) == Cardinality(Quotes(r)) >= 2

\* what is between the first quote of the reply and the next one
QuotedContent(r) ==
    LET i == CHOOSE x \in Quotes(r) : \A y \in Quotes(r) : x <= y
        j == CHOOSE x \in Quotes(r) \ {i} : \A y \in Quotes(r) \ {i} : x <= y
    IN  SubSeq(r, i + 1, j - 1)

PathOps == {"MakeDirectory", "PrintWorkingDirectory"}

\* C14 as stated: MakeDirectory and PrintWorkingDirectory succeed if and
\* only if the reply has code 257 and a double-quoted token in it, and then
\* return what is between the quotes of that token; a 257 reply without such
\* a token gives an error about "path extraction" that names neither MKD nor
\* PWD.
C14_AsStated ==
    (Returned /\ op.name \in PathOps /\ Len(events) = 2 /\ IsReply(events[2])) =>
        LET r == events[2].msg
        IN  /\ ret.err.nil <=> (HasCode(events[2], pathNameCreated) /\ HasQuotedToken(r))
            /\ ret.err.nil => ret.val = QuotedContent(r)
            /\ (HasCode(events[2], pathNameCreated) /\ ~HasQuotedToken(r)) =>
                  /\ Names(ret.err, <<"path extraction">>, r)
                  /\ ~Contains(ret.err.msg, op.cmd)

-----------------------------------------------------------------------------
(* getAddressOfPasvResponse on its own: applied to replies with a tuple *)

\* the numbers a tuple may hold; the last is 2^55
Numerals ==
    { <<"0">>, <<"2", "5", "5">>,
      <<"3", "6", "0", "2", "8", "7", "9", "7", "0", "1", "8", "9", "6", "3", "9", "6", "8">> }

\* the reply 227 with the given numbers in parentheses
TupleReply(fields) ==
    SingleLine(enteringPassiveMode, <<"x", SP, "(">> \o Join(fields, <<",">>) \o <<")">>)

InitPasv ==
    /\ \E n \in {5, 6} : \E fields \in [1..n -> Numerals] :
          /\ input = [fn |-> "getAddressOfPasvResponse", fields |-> fields]
          /\ buf = TupleReply(fields)
    /\ output = NoOutput
    /\ framed = NotFramed
    /\ SessionAtRest

\* enterPassiveMode: getAddressOfPasvResponse(resp)
DecodeAddress ==
    /\ input # NoInput /\ input.fn = "getAddressOfPasvResponse"
    /\ ~output.done
    /\ LET r == getAddressOfPasvResponse(buf)
       IN  output' = Output(FALSE, r.err, r.val)
    /\ UNCHANGED <<buf, framed, input, sessionVars>>

SpecPasv == InitPasv /\ [][DecodeAddress]_vars

-----------------------------------------------------------------------------
(* C15: the passive-mode address *)

\* the number a numeral stands for, in limbs enough to hold it
NumberOf(s) == AtoiFrom(s, 1, [i \in 1..(IntLimbs + 2) |-> 0])

\* hi * 256 + lo, as a decimal numeral
PortNumeral(hi, lo) ==
    LET p == Decimal(PortOf(NumberOf(hi), NumberOf(lo)))
    IN  IF p = << >> THEN <<"0">> ELSE p

\* C15 as stated: a reply with the tuple (a,b,c,d,hi,lo) decodes to
\* "a.b.c.d:p" with p = hi*256 + lo, whatever the decimal numbers are; a
\* reply without a tuple of six numbers gives a protocol error.
C15_AsStated ==
    (input # NoInput /\ input.fn = "getAddressOfPasvResponse" /\ output.done) =>
        LET f == input.fields
        IN  IF Len(f) = 6
            THEN /\ output.err.nil
                 /\ output.val = Join(SubSeq(f, 1, 4), <<".">>) \o <<":">>
                                     \o PortNumeral(f[5], f[6])
            ELSE Names(output.err, <<"address extraction">>, buf)

-----------------------------------------------------------------------------
(* responseCode.ok on its own: applied to codes of any length *)

MaxCodeLen == 4

\* what a code is made of
CodeChars == {"1", "2", "3", "x"}

InitCode ==
    /\ \E n \in 0..MaxCodeLen : buf \in [1..n -> CodeChars]
    /\ input = [fn |-> "ok"]
    /\ output = NoOutput
    /\ framed = NotFramed
    /\ SessionAtRest

\* code.ok()
Classify ==
    /\ input # NoInput /\ input.fn = "ok"
    /\ ~output.done
    /\ output' = Output(FALSE, Nil, ok(buf))
    /\ UNCHANGED <<buf, framed, input, sessionVars>>

SpecCode == InitCode /\ [][Classify]_vars

-----------------------------------------------------------------------------
(* C16: the success class *)

\* C16: a code is success if and only if it has exactly 3 characters and
\* the first is 1 or 2; shorter and longer codes are not, whatever they
\* begin with.
C16_SuccessClass ==
    (input # NoInput /\ input.fn = "ok" /\ output.done) =>
        (output.val <=> (Len(buf) = 3 /\ buf[1] \in {"1", "2"}))

\* a code of two characters that begins with 1 was classified not success
C16_Witness ==
    /\ input # NoInput /\ input.fn = "ok" /\ output.done
    /\ Len(buf) = 2 /\ buf[1] = "1"
    /\ ~output.val

-----------------------------------------------------------------------------
(* C17: STAT and HELP *)

\* the text of a reply: its lines without the CR-LF that ends the reply,
\* the first and, in a multi-line reply, the last without their first four
\* characters
TextOf(r) ==
    LET lines == Split(TrimSuffix(r, CRLF), CRLF)
        n == Len(lines)
        text(k) == IF k = 1 \/ k = n THEN SliceFrom(lines[k], 4) ELSE lines[k]
    IN  Join([k \in 1..n |-> text(k)], CRLF)

\* the reply an operation of one command and one reply has got
Answered(name) == Returned /\ op.name = name /\ Len(events) = 2 /\ IsReply(events[2])

\* C17: StatusOf returns GeneralStatus if and only if the reply has code
\* 211, DirectoryStatus if and only if 212, FileStatus if and only if 213,
\* each time with the text of the reply, and for any other code fails with
\* an error about STAT; HelpAbout returns the text of the reply if and only
\* if its code is 211 or 214, and for any other code fails with an error
\* about HELP.
C17_StatusAndHelp ==
    /\ Answered("StatusOf") =>
          LET e == events[2]
              returns(typ) == ~ret.panic /\ ret.err.nil /\ ret.val = <<typ, TextOf(e.msg)>>
          IN  /\ returns(GeneralStatus) <=> HasCode(e, systemStatusOrHelpReply)
              /\ returns(DirectoryStatus) <=> HasCode(e, directoryStatus)
              /\ returns(FileStatus) <=> HasCode(e, fileStatus)
              /\ (~HasCode(e, systemStatusOrHelpReply) /\ ~HasCode(e, directoryStatus)
                    /\ ~HasCode(e, fileStatus)) => Names(ret.err, <<"STAT">>, e.msg)
    /\ Answered("HelpAbout") =>
          LET e == events[2]
              returns == ~ret.panic /\ ret.err.nil /\ ret.val = TextOf(e.msg)
          IN  /\ returns <=> (HasCode(e, systemStatusOrHelpReply) \/ HasCode(e, helpMessage))
              /\ ~returns => Names(ret.err, <<"HELP">>, e.msg)

\* STAT was answered 213 with a text: FileStatus and that text
C17_Witness ==
    /\ Answered("StatusOf")
    /\ events[2].msg = SingleLine(fileStatus, <<"f">>)
    /\ ret.err.nil
    /\ ret.val = <<FileStatus, <<"f">>>>

-----------------------------------------------------------------------------
(* C18: a sole argument that is the empty string *)

\* the operations that take one argument and send it with their verb
OneArgumentOps ==
    { "ChangeWorkingDirTo", "StructureMount", "Delete", "MakeDirectory", "RemoveDirectory",
      "HelpAbout", "StatusOf", "ListFilesIn", "ListFileNamesIn", "Download", "Upload",
      "Append" }

\* C18 as stated: when the argument of an operation of one argument is the
\* empty string, the line written for its command is the verb and CR-LF,
\* with no space between; likewise for PASS with an empty password.
C18_AsStated ==
    /\ (op.name \in OneArgumentOps /\ op.arg = << >>) =>
          \A i \in SendsOf(op.cmd) : events[i].msg = op.cmd \o CRLF
    /\ (op.name = "Login" /\ op.arg2 = << >>) =>
          \A i \in SendsOf(<<"PASS">>) : events[i].msg = <<"PASS">> \o CRLF

-----------------------------------------------------------------------------
(* Connecting: newConnection, and then the session it gives *)

\* newConnection is running on a control connection: nothing read yet
InitConnect ==
    /\ transferType = ASCII
    /\ pc = "connect"
    /\ op = [name |-> "newConnection", cmd |-> << >>, arg |-> << >>, arg2 |-> << >>]
    /\ exe = NoExe
    /\ dataConn = "none"
    /\ data = << >>
    /\ addr = << >>
    /\ events = << >>
    /\ ret = NoRet
    /\ lastTypeOk = ASCII
    /\ logger \in BOOLEAN
    /\ log = << >>
    /\ twin = NoTwin
    /\ buf = << >>
    /\ framed = NotFramed
    /\ input = NoInput
    /\ output = NoOutput

\* newConnection's test with any success-class code passing
connectOnAnySuccess(code) == ok(code)

\* newConnection: code != serviceReadyForNewUser
newConnection_reply(code) == code = serviceReadyForNewUser

\* newConnection: the first reply; without a session nothing else can be done
newConnection ==
    /\ pc = "connect"
    /\ \E r \in ReceiveOutcomes :
          LET evs == <<receive(r)>>
              code == extractCode(r.msg)
              failed(err) ==
                  /\ pc' = "failed"
                  /\ ret' = Result(err, << >>)
                  /\ Perform(evs)
                  /\ exe' = NoExe
          IN  IF ~r.err.nil THEN failed(r.err)
              ELSE IF ~newConnection_reply(code) THEN failed(errorMessage(<<"connect">>, r.msg))
              ELSE Return(Result(Nil, << >>), evs)
    /\ UNCHANGED <<op, transferType, dataConn, data, addr, lastTypeOk, buf, framed, input, output, twin>>

SpecConnect == InitConnect /\ [][newConnection \/ Next]_vars

-----------------------------------------------------------------------------
(* C19: connecting *)

\* C19: nothing is written while newConnection waits for the first reply;
\* it gives a session if and only if that reply has code 220, the session
\* then being textual; any other code gives an error about "connect" and no
\* session, a failed read gives the error of the read and no session.
C19_Connect ==
    /\ pc = "connect" => events = << >>
    /\ (op.name = "newConnection" /\ pc # "connect") =>
          /\ Len(events) = 1 /\ IsRecv(events[1])
          /\ pc \in {"idle", "failed"}
          /\ pc = "idle" <=> HasCode(events[1], serviceReadyForNewUser)
          /\ pc = "idle" => (ret.err.nil /\ transferType = ASCII)
          /\ pc = "failed" =>
                /\ ~ret.err.nil
                /\ IsReply(events[1]) => Names(ret.err, <<"connect">>, events[1].msg)
                /\ ~events[1].err.nil => ret.err = events[1].err
    /\ pc = "failed" => op.name = "newConnection"
    /\ Sends # {} => op.name # "newConnection"

\* the first reply was 230, success-class but not 220: no session, and an
\* error about "connect"
C19_Witness ==
    /\ pc = "failed"
    /\ HasCode(events[1], userLoggedIn_Proceed)
    /\ Names(ret.err, <<"connect">>, events[1].msg)

-----------------------------------------------------------------------------
(* C20: what the Logger is told *)

\* the writes and reads of the control connection the operation has made
ControlEvents == SelectSeq(events, LAMBDA e : e.type \in {"send", "recv"})

\* C20: with a Logger set, the Logger has been told, at every moment of an
\* operation and so when it returns, exactly one notification for each write
\* and each read of the control connection the operation has made, in their
\* order: SentFTP with the bytes of the line and the error of the write,
\* ReceivedFTP with the bytes read and the error of the read.  Without a
\* Logger nothing is told.
C20_Notifications ==
    IF ~logger THEN log = << >>
    ELSE /\ Len(log) = Len(ControlEvents)
         /\ \A i \in 1..Len(log) :
               /\ log[i].call = IF ControlEvents[i].type = "send" THEN "SentFTP"
                                ELSE "ReceivedFTP"
               /\ log[i].msg = ControlEvents[i].msg
               /\ log[i].err = ControlEvents[i].err

\* an operation with a Logger has returned after a reply was read and a later
\* write failed: the Logger was told of the reply and of the failed write
C20_Witness ==
    /\ logger /\ Returned
    /\ \E i, j \in 1..Len(log) :
          /\ i < j
          /\ log[i].call = "ReceivedFTP" /\ log[i].err.nil /\ log[i].msg # << >>
          /\ log[j].call = "SentFTP" /\ ~log[j].err.nil

-----------------------------------------------------------------------------
(* Two sessions that differ in the Logger only: each operation is run in a
   session, then run again, from the same recorded representation and with
   the same behaviour of the server and the transport, in the session whose
   logger field is the other way round *)

First(t) == [phase |-> "first", start |-> t]

InitSink ==
    /\ transferType = ASCII
    /\ pc = "idle"
    /\ op = NoOp
    /\ exe = NoExe
    /\ dataConn = "none"
    /\ data = << >>
    /\ addr = << >>
    /\ events = << >>
    /\ ret = NoRet
    /\ lastTypeOk = ASCII
    /\ logger \in BOOLEAN
    /\ log = << >>
    /\ twin = First(ASCII)
    /\ buf = << >>
    /\ framed = NotFramed
    /\ input = NoInput
    /\ output = NoOutput

\* the caller, the server and the transport do to the second session what
\* they did to the first: the same method with the same arguments, the same
\* writes, dials, copies and closes failing, the same bytes read from the
\* control connection and from the data connection
SameInput(e, f) ==
    /\ e.err.nil = f.err.nil
    /\ (e.type = "recv" /\ f.type = "recv") => e.msg = f.msg

SameEnvironment ==
    /\ op' = twin.op
    /\ (\E i \in 1..Len(events') : events'[i].type = "copy" /\ events'[i].err.nil) =>
          data' = twin.data
    /\ \A i \in 1..Min(Len(events'), Len(twin.events)) :
          SameInput(events'[i], twin.events[i])

\* the replies the server gives to the two sessions
SinkCodes ==
    { commandOk, fileActionCompleted, closingDataConnection, userLoggedIn_Proceed,
      userNameOK_NeedPassword, fileActionPending, <<"1", "5", "0">>, <<"5", "5", "0">> }

SinkReplies ==
    {SingleLine(c, << >>) : c \in SinkCodes} \cup {PasvReply, PathReply, MultiLineReply}

RepliesOfServer ==
    \A i \in 1..Len(events') :
        (events'[i].type = "recv" /\ events'[i].err.nil) => events'[i].msg \in SinkReplies

\* a step of the session that is running
SinkStep ==
    /\ ~Returned
    /\ Next
    /\ RepliesOfServer
    /\ twin.phase = "replay" => SameEnvironment

\* the operation has returned in the first session: the other session, which
\* is in the representation the first was in, is given the operation
Replay ==
    /\ Returned /\ twin.phase = "first"
    /\ twin' = [phase |-> "replay", start |-> twin.start, op |-> op,
                events |-> events, data |-> data, ret |-> ret,
                transferType |-> transferType, log |-> log]
    /\ transferType' = twin.start
    /\ lastTypeOk' = twin.start
    /\ logger' = ~logger
    /\ log' = << >>
    /\ pc' = "idle"
    /\ op' = NoOp
    /\ exe' = NoExe
    /\ dataConn' = "none"
    /\ data' = << >>
    /\ addr' = << >>
    /\ events' = << >>
    /\ ret' = NoRet
    /\ UNCHANGED <<buf, framed, input, output>>

\* the operation has returned in the other session too: the caller goes on
\* with the first session
Resume ==
    /\ Returned /\ twin.phase = "replay"
    /\ twin' = First(transferType)
    /\ logger' = ~logger
    /\ log' = << >>
    /\ pc' = "idle"
    /\ op' = NoOp
    /\ exe' = NoExe
    /\ dataConn' = "none"
    /\ data' = << >>
    /\ addr' = << >>
    /\ events' = << >>
    /\ ret' = NoRet
    /\ UNCHANGED <<transferType, lastTypeOk, buf, framed, input, output>>

SpecSink == InitSink /\ [][SinkStep \/ Replay \/ Resume]_vars

-----------------------------------------------------------------------------
(* C21: the Logger does not influence the protocol *)

\* C21: a session with a Logger and a session without one that are given the
\* same operation in the same recorded representation, the server and the
\* transport behaving alike, write the same lines to the control connection,
\* dial, copy and close data connections alike and in the same order, read
\* as often, and return the same result in the same recorded representation.
C21_NoInfluence ==
    twin.phase = "replay" =>
        /\ Len(events) <= Len(twin.events)
        /\ \A i \in 1..Len(events) : events[i] = twin.events[i]
        /\ Returned =>
              /\ events = twin.events
              /\ ret = twin.ret
              /\ transferType = twin.transferType
              /\ data = twin.data

\* a download has returned in both sessions after the second reply; the
\* session with the Logger switched to binary and told the Logger everything
C21_Witness ==
    /\ twin.phase = "replay" /\ Returned /\ ~logger
    /\ op.name = "Download" /\ ret.err.nil
    /\ twin.start = ASCII /\ transferType = binary
    /\ Len(twin.log) = 7 /\ log = << >>

-----------------------------------------------------------------------------
(* C22: the close of the data connection and the second reply *)

\* the copies that succeeded, the closes of the data connection
GoodCopies == {i \in EventsOf("copy") : events[i].err.nil}
Closes == EventsOf("close")

-----------------------------------------------------------------------------
(* C23: what precedes the data command *)

\* the events before the data command written as event k: TYPE answered 200
\* if TYPE was sent, PASV answered 227 with an address in parentheses, the
\* dial of that address, each having succeeded, and nothing else
Prepared(k) ==
    /\ k \in {4, 6}
    /\ k = 6 =>
          /\ IsSendOf(events[1], <<"TYPE">>) /\ events[1].err.nil
          /\ HasCode(events[2], commandOk)
    /\ IsSendOf(events[k - 3], <<"PASV">>) /\ events[k - 3].err.nil
    /\ HasCode(events[k - 2], enteringPassiveMode)
    /\ Contains(events[k - 2].msg, <<"(">>)
    /\ events[k - 1].type = "dial" /\ events[k - 1].err.nil
    /\ events[k - 1].msg = <<"1", ".", "2", ".", "3", ".", "4", ":", "2", "5", "8">>

\* the verb of the last command written
LastVerb ==
    LET k == CHOOSE i \in Sends : \A j \in Sends : j <= i
    IN  IF IsSendOf(events[k], <<"TYPE">>) THEN <<"TYPE">> ELSE <<"PASV">>

\* the error is the one of the step that failed last
ErrorOfLastStep ==
    LET e == events[Len(events)]
    IN  IF ~e.err.nil THEN ret.err = e.err
        ELSE /\ IsReply(e)
             /\ IF HasCode(e, enteringPassiveMode) /\ LastVerb = <<"PASV">>
                THEN Names(ret.err, <<"address extraction">>, e.msg)
                ELSE Names(ret.err, LastVerb, e.msg)

\* C23: the data command of a data-bearing operation is written only after
\* the switch of the representation, if one was needed, was answered 200,
\* PASV was answered 227, an address was taken from that reply and dialled
\* with success, in that order; an operation that returns without having
\* written the data command returns the error of the step that failed.
C23_DataCommandLast ==
    op.name \in DataOps =>
        /\ \A k \in SendsOf(op.cmd) : Prepared(k)
        /\ (Returned /\ SendsOf(op.cmd) = {}) => ErrorOfLastStep

\* an upload has returned because the dial failed: TYPE and PASV had
\* succeeded and STOR was not written
C23_Witness ==
    /\ Returned /\ op.name = "Upload"
    /\ Len(events) = 5
    /\ events[5].type = "dial" /\ ret.err = DialErr
    /\ SendsOf(<<"STOR">>) = {}

-----------------------------------------------------------------------------
(* C24: the data command is refused *)

\* event k is the data command and the reply read after it is not of the
\* success class
Refused(k) ==
    /\ k \in SendsOf(op.cmd)
    /\ k < Len(events)
    /\ IsReply(events[k + 1])
    /\ ~SuccessClass(events[k + 1])

\* C24: when the first reply after the data command is not of the success
\* class, the operation closes the data connection and returns, without a
\* copy and without another read, the protocol error that names the data
\* command and carries the reply.
C24_Refused ==
    op.name \in DataOps =>
        \A k \in 1..Len(events) : Refused(k) =>
            /\ Returned
            /\ Len(events) = k + 2
            /\ events[k + 2].type = "close"
            /\ dataConn = "closed"
            /\ EventsOf("copy") = {}
            /\ ret.err = errorMessage(op.cmd, events[k + 1].msg)
            /\ Names(ret.err, op.cmd, events[k + 1].msg)

\* an append was answered 550
C24_Witness ==
    /\ Returned /\ op.name = "Append"
    /\ \E k \in 1..Len(events) : Refused(k) /\ HasCode(events[k + 1], <<"5", "5", "0">>)

-----------------------------------------------------------------------------
(* C25: the representation when the data command is written *)

\* the step writes the data command of the operation
WritesDataCommand ==
    /\ op.name \in DataOps
    /\ Len(events') = Len(events) + 1
    /\ IsSendOf(events'[Len(events')], op.cmd)

\* the operation before this one was a download that got as far as RETR
AfterDownload == op.name = "Download" /\ SendsOf(<<"RETR">>) # {}

\* C25: when LIST or NLST is written the recorded representation is the
\* textual one, when RETR, STOR, STOU or APPE is written it is the binary
\* one; a data-bearing operation begins with TYPE exactly when the recorded
\* representation is not the one it requires, and writes no other TYPE: the
\* first listing of a new session and a download that follows a download
\* write none.
C25_RepresentationAtDataCommand ==
    [][ /\ WritesDataCommand =>
              /\ transferType = Requested(op.name)
              /\ transferType' = transferType
              /\ SendsOf(<<"TYPE">>) \subseteq {1}
              /\ SendsOf(<<"TYPE">>) = {1} => HasCode(events[2], commandOk)
        /\ EntersSwitch =>
              /\ (exe'.args[1] = <<"TYPE">>) <=> (transferType # Requested(op'.name))
              /\ (op = NoOp /\ op'.name \in ListOps) => exe'.args[1] = <<"PASV">>
              /\ (AfterDownload /\ op'.name = "Download") => exe'.args[1] = <<"PASV">>
      ]_vars

\* a listing that follows a file transfer has written TYPE A and then LIST
C25_Witness ==
    /\ op.name = "ListFilesIn"
    /\ SendsOf(<<"LIST">>) # {}
    /\ IsSendOf(events[1], <<"TYPE">>)
    /\ transferType = ASCII

-----------------------------------------------------------------------------
(* readResponse on a control connection whose reads give the bytes of the
   server in chunks *)

\* how many reads the bytes of the server may be spread over
MaxReads == 3

\* replies of the server: two of one line, one of two lines
Reply426 == SingleLine(connectionClosed_TransferAborter, << >>)
Reply226 == SingleLine(closingDataConnection, << >>)
Reply211 ==
    systemStatusOrHelpReply \o <<"-">> \o CRLF \o systemStatusOrHelpReply \o <<SP>> \o CRLF

\* what the server sends on the control connection, reply by reply
ReplySequences == { <<Reply226>>, <<Reply211>>, <<Reply426, Reply226>> }

\* the ways to cut s into at most n chunks, none empty
RECURSIVE Chunkings(_, _)
Chunkings(s, n) ==
    IF s = << >> THEN {<< >>}
    ELSE IF n = 0 THEN {}
    ELSE UNION { { <<SubSeq(s, 1, k)>> \o c : c \in Chunkings(SubSeq(s, k + 1, Len(s)), n - 1) } :
                 k \in 1..Len(s) }

\* what the reads of the connection return, one after the other: the chunks,
\* then nothing more (the read blocks) or an error
ReadsOf(chunks, fails) ==
    [i \in 1..(Len(chunks) + (IF fails THEN 1 ELSE 0)) |->
        IF i <= Len(chunks) THEN [msg |-> chunks[i], err |-> Nil]
        ELSE [msg |-> << >>, err |-> ReadErr]]

\* the server may stop before the last byte
Sent(replies) ==
    LET all == Join(replies, << >>)
    IN  {all, SubSeq(all, 1, Len(all) - 1)}

InitReceive ==
    /\ \E replies \in ReplySequences : \E s \in Sent(replies) :
       \E chunks \in Chunkings(s, MaxReads) : \E fails \in BOOLEAN :
          input = [fn |-> "readResponse", replies |-> replies,
                   conn |-> ReadsOf(chunks, fails),
                   reads |-> 0, start |-> 0, returned |-> << >>]
    /\ buf = << >>
    /\ output = NoOutput
    /\ framed = NotFramed
    /\ SessionAtRest

\* readResponseInto testing the bytes of the last read only
readResponseIntoTestingChunk ==
    /\ input # NoInput /\ input.fn = "readResponse"
    /\ ~output.done
    /\ input.reads < Len(input.conn)
    /\ LET r == input.conn[input.reads + 1]
       IN  IF ~r.err.nil
           THEN buf' = buf /\ output' = Output(FALSE, r.err, buf)
           ELSE /\ buf' = buf \o r.msg
                /\ output' = IF isCompleteResponse(r.msg)
                             THEN Output(FALSE, Nil, buf')
                             ELSE output
    /\ input' = [input EXCEPT !.reads = @ + 1]
    /\ UNCHANGED <<framed, sessionVars>>

\* readResponseInto: one read of the connection; readResponse returns when it
\* says done
readResponseInto ==
    /\ input # NoInput /\ input.fn = "readResponse"
    /\ ~output.done
    /\ input.reads < Len(input.conn)
    /\ LET r == input.conn[input.reads + 1]
       IN  IF ~r.err.nil
           THEN buf' = buf /\ output' = Output(FALSE, r.err, buf)
           ELSE /\ buf' = buf \o r.msg
                /\ output' = IF isCompleteResponse(buf')
                             THEN Output(FALSE, Nil, buf')
                             ELSE output
    /\ input' = [input EXCEPT !.reads = @ + 1]
    /\ UNCHANGED <<framed, sessionVars>>

\* readResponse is called again, for the next reply of the server: a new
\* accumulator
readResponse ==
    /\ input # NoInput /\ input.fn = "readResponse"
    /\ output.done
    /\ Len(input.returned) + 1 < Len(input.replies)
    /\ input' = [input EXCEPT !.returned = Append(@, [msg |-> output.val, err |-> output.err]),
                              !.start = input.reads]
    /\ buf' = << >>
    /\ output' = NoOutput
    /\ UNCHANGED <<framed, sessionVars>>

\* a read that can return does return
SpecReceive ==
    InitReceive /\ [][readResponseInto \/ readResponse]_vars /\ WF_vars(readResponseInto)

-----------------------------------------------------------------------------
(* C26: when receive returns *)

\* the bytes of reads i to j of the connection
RECURSIVE BytesOfReads(_, _)
BytesOfReads(i, j) ==
    IF j < i THEN << >> ELSE BytesOfReads(i, j - 1) \o input.conn[j].msg

\* read k of the connection ends the call that began after read input.start:
\* it fails, or the bytes accumulated with it are a complete reply
Ends(k) ==
    \/ ~input.conn[k].err.nil
    \/ isCompleteResponse(BytesOfReads(input.start + 1, k))

\* the reads of the call so far: none before the last of them ended the call
NoneEndedBefore(k) == \A j \in (input.start + 1)..(k - 1) : ~Ends(j)

C26_Returns ==
    input.reads >= input.start /\
    IF ~output.done
    THEN /\ NoneEndedBefore(input.reads + 1)
         /\ buf = BytesOfReads(input.start + 1, input.reads)
    ELSE /\ input.reads > input.start
         /\ NoneEndedBefore(input.reads)
         /\ Ends(input.reads)
         /\ output.err = input.conn[input.reads].err
         /\ output.val = BytesOfReads(input.start + 1, input.reads)

\* the connection will give the call a read that ends it
WillEnd == ~output.done /\ \E k \in (input.reads + 1)..Len(input.conn) : Ends(k)

\* C26: readResponse reads until a read fails or the bytes accumulated since
\* the call began are a complete reply, testing after every read; it returns
\* with that read, the error being the one of the read, and reads no more;
\* so it returns whenever the connection has such a read to give.
C26_Receive == [](C26_Returns) /\ (WillEnd ~> output.done)

\* a reply of two lines has come in three reads, and the call returned it
\* with the third
C26_Witness ==
    /\ input # NoInput /\ input.fn = "readResponse"
    /\ output.done /\ output.err.nil
    /\ input.start = 0 /\ input.reads = 3
    /\ output.val = Reply211

-----------------------------------------------------------------------------
(* parseNLST on name lists *)

\* how many names a list has
MaxNames == 3

\* names without CR and LF, the empty one among them
FileNames == {<< >>, <<"a">>, <<"b", SP, "c">>}

InitNLST ==
    /\ \E n \in 0..MaxNames : \E parts \in [1..n -> FileNames \X {CRLF, <<LF>>}] :
          /\ input = [fn |-> "parseNLST", names |-> [i \in 1..n |-> parts[i][1]]]
          /\ buf = Concat(parts)
    /\ output = NoOutput
    /\ framed = NotFramed
    /\ SessionAtRest

\* ListFileNamesIn: parseNLST(data)
ParseNames ==
    /\ input # NoInput /\ input.fn = "parseNLST"
    /\ ~output.done
    /\ output' = Output(FALSE, Nil, parseNLST(buf))
    /\ UNCHANGED <<buf, framed, input, sessionVars>>

SpecNLST == InitNLST /\ [][ParseNames]_vars

-----------------------------------------------------------------------------
(* C27: name lists *)

\* C27: of names without CR and LF, each followed by CR-LF or by LF,
\* parseNLST returns exactly the names, in order: no name for the empty
\* input, and an empty name where a terminator follows a terminator.
C27_NamesBack ==
    output.done =>
        /\ Len(output.val) = Len(input.names)
        /\ \A i \in 1..Len(input.names) : output.val[i] = input.names[i]

\* a name ended by CR-LF and an empty name ended by LF have come back
C27_Witness ==
    /\ input # NoInput /\ input.fn = "parseNLST"
    /\ output.done
    /\ buf = <<"a">> \o CRLF \o <<LF>>
    /\ Len(output.val) = 2
    /\ output.val[1] = <<"a">> /\ output.val[2] = << >>

-----------------------------------------------------------------------------
(* C28: replies and reads *)

\* C28 as stated: whatever the reads the bytes of the server come in, the
\* first call returns the first reply of the server and the second call the
\* second.
C28_AsStated ==
    (input # NoInput /\ input.fn = "readResponse" /\ output.done /\ output.err.nil) =>
        output.val = input.replies[Len(input.returned) + 1]

-----------------------------------------------------------------------------
(* C29: replies owed and replies read *)

\* no write to and no read from the control connection has failed
NoTransportError == \A i \in Sends \cup Recvs : events[i].err.nil

\* the replies a server owes the operation that answers every command once
\* and an accepted data command once more, on completion
RepliesOwed ==
    Cardinality(Sends)
        + (IF op.name \in DataOps /\ FirstReplyOk THEN 1 ELSE 0)

\* C29 as stated: a data-bearing operation that returns without an error of
\* the control connection, a failed copy or close of the data connection
\* included, has read every reply the server owes it.
C29_AsStated ==
    (Returned /\ op.name \in DataOps /\ NoTransportError) =>
        Cardinality(Recvs) = RepliesOwed

-----------------------------------------------------------------------------
(* Connect and ConnectLogging: the library dials the control connection *)

\* ConnectLogging is entered; Connect is ConnectLogging without a Logger
InitDial ==
    /\ transferType = ASCII
    /\ pc = "ConnectLogging"
    /\ op = [name |-> "ConnectLogging", cmd |-> << >>, arg |-> << >>, arg2 |-> << >>]
    /\ exe = NoExe
    /\ dataConn = "none"
    /\ data = << >>
    /\ addr = << >>
    /\ events = << >>
    /\ ret = NoRet
    /\ lastTypeOk = ASCII
    /\ logger \in BOOLEAN
    /\ log = << >>
    /\ twin = NoTwin
    /\ buf = << >>
    /\ framed = NotFramed
    /\ input = [fn |-> "ConnectLogging", conn |-> "none"]
    /\ output = NoOutput

\* ConnectLogging: net.Dial("tcp", addr), then newConnection(conn, logger)
ConnectLogging ==
    /\ pc = "ConnectLogging"
    /\ \E err \in {Nil, DialErr} :
          IF ~err.nil
          THEN /\ pc' = "failed"
               /\ ret' = Result(err, << >>)
               /\ input' = input
          ELSE /\ pc' = "connect"
               /\ ret' = ret
               /\ input' = [input EXCEPT !.conn = "open"]
    /\ UNCHANGED <<op, exe, events, transferType, dataConn, data, addr, lastTypeOk,
                   logger, log, buf, framed, output, twin>>

SpecDial == InitDial /\ [][ConnectLogging \/ newConnection \/ Next]_vars

-----------------------------------------------------------------------------
(* C30: the control connection of a failed connect *)

\* C30 as stated: when ConnectLogging returns an error, the control
\* connection it dialled is not left open.
C30_AsStated ==
    (input # NoInput /\ input.fn = "ConnectLogging" /\ pc = "failed") =>
        input.conn # "open"

-----------------------------------------------------------------------------
(* C31: the end of an accepted buffer *)

\* the last two bytes of the buffer are CR and LF
EndsWithCRLF == Len(buf) >= 2 /\ buf[Len(buf) - 1] = CR /\ buf[Len(buf)] = LF

\* C31 as stated: a buffer the framer accepts as a complete reply ends with
\* CR-LF.
C31_AsStated == (framed.done /\ framed.complete) => EndsWithCRLF

-----------------------------------------------------------------------------
(* C32: payload extraction on the buffers the framer accepts *)

\* the buffers receive can return: those isCompleteResponse accepts
Accepted(max, bytes) ==
    {b \in Buffers(max) \cup ByteStrings(bytes) : isCompleteResponse(b)}

InitAccepted ==
    /\ buf \in Accepted(MaxLines, MaxBytes)
    /\ input = [fn |-> "removeControlSymbols", resp |-> buf]
    /\ output = NoOutput
    /\ framed = NotFramed
    /\ SessionAtRest

SpecAccepted == InitAccepted /\ [][Deframe]_vars

\* C32 as stated: for a buffer isCompleteResponse accepts,
\* removeControlSymbols returns a string: no slice expression in it is out of
\* range.
C32_AsStated == (Deframed /\ isCompleteResponse(buf)) => ~output.panic

=============================================================================
